---- MODULE Spec2Model ----
(***************************************************************************)
(* Battery chemistry / cell-count detection and voltage-to-percent         *)
(* estimation of go-config (battery.go).                                   *)
(*                                                                         *)
(* Representation of numbers.  The Go code computes in float32.  Here a    *)
(* voltage is an exact integer number of half millivolts (1 V = 2000       *)
(* units), so every constant of the chemistry profiles, every scaled       *)
(* window bound n*MinVoltage / n*MaxVoltage and every rounding boundary    *)
(* (k + 1/2) * nominal is an integer.  Quotients (the per-cell voltage,    *)
(* the interpolated percentage) are exact rationals [num, den] with        *)
(* den > 0.  float32 rounding error of the individual operations is not    *)
(* modelled; the float -> int conversion of DetectCellCount is modelled    *)
(* as Go defines it (truncation toward zero, implementation-dependent      *)
(* when the value does not fit the int type).                              *)
(***************************************************************************)
EXTENDS Integers, Sequences, FiniteSets

VARIABLES pack, call, last, battery, lastOk, migrated, sync, file, conf

\* the variables of the migration, of the config file and of the settings sync
envVars == <<migrated, sync, file, conf>>

vars == <<pack, call, last, battery, lastOk, envVars>>

(***************************************************************************)
(* Bounds of the model (not program constants).                            *)
(***************************************************************************)
\* voltages are drawn at the interesting points and up to MaxOffset units
\* (half millivolts) below and above each of them
MaxOffset == 1

(***************************************************************************)
(* Units and rationals.                                                    *)
(***************************************************************************)
\* cv hundredths of a volt, in units
CentiVolt(cv) == cv * 20

\* a float32 too large for the int type once divided by a nominal voltage
\* (for instance 1e20 V, or +Inf); it is only ever compared, never computed with
HugeVoltage == 2147483647

Rat(n, d) == [num |-> n, den |-> d]

RECURSIVE GCD(_, _)
GCD(a, b) == IF b = 0 THEN a ELSE GCD(b, a % b)

Abs(x) == IF x < 0 THEN -x ELSE x

\* n/d with d > 0, in lowest terms
Normalize(n, d) ==
    LET g == GCD(Abs(n), d)
    IN  IF g = 0 THEN Rat(n, d) ELSE Rat(n \div g, d \div g)

\* a <= b for rationals with positive denominators; integer parts first, so
\* that no product exceeds den * den
RatLE(a, b) ==
    LET qa == a.num \div a.den
        qb == b.num \div b.den
    IN  IF qa # qb THEN qa < qb
        ELSE (a.num % a.den) * b.den <= (b.num % b.den) * a.den

RatEq(a, b) == RatLE(a, b) /\ RatLE(b, a)

RatLT(a, b) == ~RatLE(b, a)

(***************************************************************************)
(* Chemistry profiles (battery.go:234-273).                                *)
(***************************************************************************)
ChemistryLeadAcid == "lead-acid"
ChemistryLiFePO4 == "lifepo4"
ChemistryLiIon == "li-ion"
ChemistryLiPo == "lipo"

CentiVolts(s) == [i \in 1..Len(s) |-> CentiVolt(s[i])]

LiFePO4Chemistry ==
    [Chemistry  |-> ChemistryLiFePO4,
     MinVoltage |-> CentiVolt(250),
     MaxVoltage |-> CentiVolt(365),
     Voltages   |-> CentiVolts(<<250, 300, 320, 322, 325, 325, 326, 330, 332, 335, 360>>),
     Percent    |-> <<0, 10, 20, 30, 40, 50, 60, 70, 80, 90, 100>>]

LiIonChemistry ==
    [Chemistry  |-> ChemistryLiIon,
     MinVoltage |-> CentiVolt(300),
     MaxVoltage |-> CentiVolt(420),
     Voltages   |-> CentiVolts(<<340, 346, 351, 356, 358, 361, 362, 364, 367, 371, 376,
                                 381, 386, 390, 393, 397, 400, 404, 407, 411, 417>>),
     Percent    |-> <<0, 5, 10, 15, 20, 25, 30, 35, 40, 45, 50,
                      55, 60, 65, 70, 75, 80, 85, 90, 95, 100>>]

LeadAcidChemistry ==
    [Chemistry  |-> ChemistryLeadAcid,
     MinVoltage |-> CentiVolt(180),
     MaxVoltage |-> CentiVolt(240),
     Voltages   |-> CentiVolts(<<193, 194, 196, 198, 200, 201, 203, 205, 207, 209, 211>>),
     Percent    |-> <<0, 10, 20, 30, 40, 50, 60, 70, 80, 90, 100>>]

LiPoChemistry ==
    [Chemistry  |-> ChemistryLiPo,
     MinVoltage |-> CentiVolt(300),
     MaxVoltage |-> CentiVolt(420),
     Voltages   |-> CentiVolts(<<340, 346, 351, 356, 358, 361, 362, 364, 367, 371, 376,
                                 381, 386, 390, 393, 397, 400, 404, 407, 411, 417>>),
     Percent    |-> <<0, 5, 10, 15, 20, 25, 30, 35, 40, 45, 50,
                      55, 60, 65, 70, 75, 80, 85, 90, 95, 100>>]

\* the keys of the ChemistryProfiles map, in the order of the map literal
ChemistryNames == <<ChemistryLiFePO4, ChemistryLiIon, ChemistryLeadAcid, ChemistryLiPo>>

Registered == {ChemistryNames[i] : i \in 1..Len(ChemistryNames)}

ChemistryProfiles ==
    [c \in Registered |->
        CASE c = ChemistryLiFePO4  -> LiFePO4Chemistry
          [] c = ChemistryLiIon    -> LiIonChemistry
          [] c = ChemistryLeadAcid -> LeadAcidChemistry
          [] c = ChemistryLiPo     -> LiPoChemistry]

\* a chemistry name that is no key of ChemistryProfiles
UnknownChemistry == "invalid-chemistry"

(***************************************************************************)
(* BatteryPack (battery.go:123-127).  A nil Type is NilType.               *)
(***************************************************************************)
NilType ==
    [Chemistry |-> "<nil>", MinVoltage |-> 0, MaxVoltage |-> 0,
     Voltages |-> <<>>, Percent |-> <<>>]

BatteryPack(type, cellCount) == [Type |-> type, CellCount |-> cellCount]

\* a nil *BatteryPack
NilPack == BatteryPack(NilType, 0)

\* bounds of the cell count: DetectCellCount clamps into 1..MaxCellCount
MinCellCount == 1
MaxCellCount == 24

(***************************************************************************)
(* BatteryPack.GetScaledMinVoltage / GetScaledMaxVoltage                   *)
(* (battery.go:149-163).                                                   *)
(***************************************************************************)
GetScaledMinVoltage(bp) ==
    IF bp.Type = NilType \/ bp.CellCount <= 0
    THEN 0
    ELSE bp.Type.MinVoltage * bp.CellCount

\* faulty variant: the per-cell maximum, not scaled by the cell count
GetScaledMaxVoltageUnscaled(bp) ==
    IF bp.Type = NilType \/ bp.CellCount <= 0
    THEN 0
    ELSE bp.Type.MaxVoltage

GetScaledMaxVoltage(bp) ==
    IF bp.Type = NilType \/ bp.CellCount <= 0
    THEN 0
    ELSE bp.Type.MaxVoltage * bp.CellCount

(***************************************************************************)
(* BatteryPack.DetectCellCount (battery.go:129-147).                       *)
(***************************************************************************)
\* int(x) of Go for a float x = num/den, den > 0, that fits the int type:
\* the fraction is discarded (truncation toward zero)
IntOfFloat(num, den) ==
    IF num >= 0 THEN num \div den ELSE -((-num) \div den)

\* stand-ins for the least and the greatest value of the int type
MinInt == -HugeVoltage
MaxInt == HugeVoltage

IsHuge(voltage) == voltage >= HugeVoltage \/ voltage <= -HugeVoltage

\* int(x) for a float x that the int type cannot represent: the Go
\* specification leaves the value to the implementation ("if the value
\* cannot be represented by the type the result is implementation-
\* dependent").  amd64 and 386 yield the least int whatever the sign; arm
\* and arm64 saturate.
IntOfFloatOutOfRange(positive) ==
    IF positive THEN {MinInt, MaxInt} ELSE {MinInt}

\* faulty variant: the per-cell minimum taken for the nominal voltage
EstimatedCellsMinVoltage(type, voltage) ==
    IF IsHuge(voltage) \/ type.MinVoltage = 0
    THEN IntOfFloatOutOfRange(voltage > 0)
    ELSE {IntOfFloat(2 * voltage + type.MinVoltage, 2 * type.MinVoltage)}

\* the values int(voltage/nominalVoltage + 0.5) can take, where
\* nominalVoltage = (MinVoltage + MaxVoltage) / 2:
\* voltage/nominal + 1/2 = (4*voltage + sum) / (2*sum), sum = Min + Max
EstimatedCells(type, voltage) ==
    LET sum == type.MinVoltage + type.MaxVoltage
    IN  IF IsHuge(voltage) \/ sum = 0
        THEN IntOfFloatOutOfRange(voltage > 0)
        ELSE {IntOfFloat(4 * voltage + sum, 2 * sum)}

\* faulty variant: no lower bound
ClampCellCountUpperOnly(estimatedCells) ==
    IF estimatedCells > MaxCellCount THEN MaxCellCount ELSE estimatedCells

\* "Validate reasonable cell count (1-24 cells)"
ClampCellCount(estimatedCells) ==
    IF estimatedCells < MinCellCount THEN MinCellCount
    ELSE IF estimatedCells > MaxCellCount THEN MaxCellCount
    ELSE estimatedCells

\* the set of values bp.DetectCellCount(voltage) can return
PackDetectCellCount(bp, voltage) ==
    IF bp.Type = NilType THEN {0}
    ELSE {ClampCellCount(e) : e \in EstimatedCells(bp.Type, voltage)}

(***************************************************************************)
(* Battery.DetectCellCount (battery.go:96-105).                            *)
(***************************************************************************)
DetectCellCount(chemistry, voltage) ==
    IF chemistry \notin Registered THEN {0}
    ELSE PackDetectCellCount(BatteryPack(ChemistryProfiles[chemistry], 0), voltage)

(***************************************************************************)
(* BatteryPack.VoltageToPercent (battery.go:165-224).                      *)
(***************************************************************************)
PercentResult(err, percent) == [err |-> err, percent |-> percent]

\* faulty variant: 0 returned along with the error
PercentErrorZero == PercentResult(TRUE, Rat(0, 1))

\* return -1, fmt.Errorf(...)
PercentError == PercentResult(TRUE, Rat(-1, 1))

\* faulty variant: a single cell rejected as well
InvalidCellCountOffByOne(bp) == bp.CellCount <= 1

\* if bp.CellCount <= 0 { return -1, error }
InvalidCellCount(bp) == bp.CellCount <= 0

\* faulty variant: the pack voltage taken for the per-cell voltage
CellVoltageOfPack(bp, voltage) == Rat(voltage, 1)

\* cellVoltage := voltage / float32(bp.CellCount)
CellVoltage(bp, voltage) == Rat(voltage, bp.CellCount)

\* faulty variant: no search, the whole curve taken for the interval
SearchIntervalWhole(voltages, cellVoltage, left, right) == <<left, right>>

\* faulty variant: a voltage equal to the middle point moves the upper end
RECURSIVE SearchIntervalUpperInclusive(_, _, _, _)
SearchIntervalUpperInclusive(voltages, cellVoltage, left, right) ==
    IF left < right - 1
    THEN LET mid == (left + right) \div 2
         IN  IF RatLE(cellVoltage, Rat(voltages[mid + 1], 1))
             THEN SearchIntervalUpperInclusive(voltages, cellVoltage, left, mid)
             ELSE SearchIntervalUpperInclusive(voltages, cellVoltage, mid, right)
    ELSE <<left, right>>

\* the binary search for the interpolation interval; left and right are the
\* 0-based indices of the Go code
RECURSIVE SearchInterval(_, _, _, _)
SearchInterval(voltages, cellVoltage, left, right) ==
    IF left < right - 1
    THEN LET mid == (left + right) \div 2
         IN  IF RatLT(cellVoltage, Rat(voltages[mid + 1], 1))
             THEN SearchInterval(voltages, cellVoltage, left, mid)
             ELSE SearchInterval(voltages, cellVoltage, mid, right)
    ELSE <<left, right>>

\* the number of iterations of the loop of the binary search
RECURSIVE SearchSteps(_, _, _, _)
SearchSteps(voltages, cellVoltage, left, right) ==
    IF left < right - 1
    THEN LET mid == (left + right) \div 2
         IN  IF RatLT(cellVoltage, Rat(voltages[mid + 1], 1))
             THEN 1 + SearchSteps(voltages, cellVoltage, left, mid)
             ELSE 1 + SearchSteps(voltages, cellVoltage, mid, right)
    ELSE 0

\* faulty variant: interpolation from the upper end of the interval
InterpolateFromUpper(v1, v2, p1, p2, cellVoltage) ==
    LET d == cellVoltage.den * (v2 - v1)
        n == p1 * d + (p2 - p1) * (cellVoltage.den * v2 - cellVoltage.num)
    IN  IF d < 0 THEN Normalize(-n, -d) ELSE Normalize(n, d)

\* p1 + (p2-p1)*(cellVoltage-v1)/(v2-v1), exactly
Interpolate(v1, v2, p1, p2, cellVoltage) ==
    LET d == cellVoltage.den * (v2 - v1)
        n == p1 * d + (p2 - p1) * (cellVoltage.num - cellVoltage.den * v1)
    IN  IF d < 0 THEN Normalize(-n, -d) ELSE Normalize(n, d)

\* "Ensure result is within bounds"
ClampPercent(percent) ==
    IF RatLT(percent, Rat(0, 1)) THEN Rat(0, 1)
    ELSE IF RatLT(Rat(100, 1), percent) THEN Rat(100, 1)
    ELSE percent

VoltageToPercent(bp, voltage) ==
    IF bp.Type = NilType THEN PercentError
    ELSE IF InvalidCellCount(bp) THEN PercentError
    ELSE
      LET cellVoltage == CellVoltage(bp, voltage)
          voltages == bp.Type.Voltages
          percents == bp.Type.Percent
          n == Len(voltages)
      IN  IF Len(voltages) # Len(percents) \/ Len(voltages) = 0 THEN PercentError
          ELSE IF RatLE(cellVoltage, Rat(voltages[1], 1))
               THEN PercentResult(FALSE, Rat(percents[1], 1))
          ELSE IF RatLE(Rat(voltages[n], 1), cellVoltage)
               THEN PercentResult(FALSE, Rat(percents[n], 1))
          ELSE
            LET iv == SearchInterval(voltages, cellVoltage, 0, n - 1)
                v1 == voltages[iv[1] + 1]
                v2 == voltages[iv[2] + 1]
                p1 == percents[iv[1] + 1]
                p2 == percents[iv[2] + 1]
            IN  IF v2 = v1 THEN PercentResult(FALSE, Rat(p1, 1))
                ELSE PercentResult(FALSE,
                        ClampPercent(Interpolate(v1, v2, p1, p2, cellVoltage)))

(***************************************************************************)
(* AutoDetectBatteryPack.  Its implementation is not among the sources;    *)
(* it is modelled from the specification (section 4.3): a priority table   *)
(* of (chemistry, cellCount) pairs, then a fallback over every registered  *)
(* chemistry and the cell counts 1..10.  The table is reconstructed from   *)
(* the rows TestAutoDetectBatteryPack (battery_autodetect_test.go)         *)
(* expects, in an order that yields every expected row.  The registry is   *)
(* the Go map ChemistryProfiles: the fallback enumerates it in no fixed    *)
(* order, and the specification fixes no choice between matches of the     *)
(* same cell count, so any of them can be the one selected.                *)
(***************************************************************************)
TableEntry(chemistry, cellCount) == [chemistry |-> chemistry, cellCount |-> cellCount]

voltageTable ==
    << TableEntry(ChemistryLeadAcid, 1),
       TableEntry(ChemistryLiFePO4, 1),
       TableEntry(ChemistryLiIon, 1),
       TableEntry(ChemistryLiFePO4, 2),
       TableEntry(ChemistryLiIon, 2),
       TableEntry(ChemistryLiIon, 3),
       TableEntry(ChemistryLiFePO4, 3),
       TableEntry(ChemistryLiIon, 4),
       TableEntry(ChemistryLiIon, 5),
       TableEntry(ChemistryLiIon, 8),
       TableEntry(ChemistryLiIon, 10) >>

\* the fallback phase tries the cell counts 1..MaxFallbackCells
MaxFallbackCells == 10

PackOf(entry) == BatteryPack(ChemistryProfiles[entry.chemistry], entry.cellCount)

\* the scaled window [minVoltage*cellCount, maxVoltage*cellCount] contains voltage
WindowContains(entry, voltage) ==
    /\ ChemistryProfiles[entry.chemistry].MinVoltage * entry.cellCount <= voltage
    /\ voltage <= ChemistryProfiles[entry.chemistry].MaxVoltage * entry.cellCount

TableMatches(voltage) ==
    {i \in 1..Len(voltageTable) : WindowContains(voltageTable[i], voltage)}

\* faulty variant: the last matching entry of the table
TableLookupLast(voltage) ==
    voltageTable[CHOOSE i \in TableMatches(voltage) :
                    \A j \in TableMatches(voltage) : j <= i]

\* the first entry, in table order, whose window contains voltage
TableLookup(voltage) ==
    voltageTable[CHOOSE i \in TableMatches(voltage) :
                    \A j \in TableMatches(voltage) : i <= j]

FallbackMatches(voltage) ==
    {e \in {TableEntry(c, n) : c \in Registered, n \in 1..MaxFallbackCells} :
        WindowContains(e, voltage)}

\* faulty variant: the highest cell count preferred
FallbackSelectHighest(voltage) ==
    {e \in FallbackMatches(voltage) :
        \A f \in FallbackMatches(voltage) : f.cellCount <= e.cellCount}

\* faulty variant: any match, whatever its cell count
FallbackSelectAny(voltage) == FallbackMatches(voltage)

\* the matches the fallback phase can select: those of the lowest cell count
FallbackSelect(voltage) ==
    {e \in FallbackMatches(voltage) :
        \A f \in FallbackMatches(voltage) : e.cellCount <= f.cellCount}

AutoResult(err, phase, bp) == [err |-> err, phase |-> phase, pack |-> bp]

AutoError == AutoResult(TRUE, "none", NilPack)

\* faulty variant: no check of the sign, and a default pack when nothing matches
AutoDetectWithDefault(voltage) ==
    IF TableMatches(voltage) # {}
    THEN {AutoResult(FALSE, "table", PackOf(TableLookup(voltage)))}
    ELSE IF FallbackMatches(voltage) # {}
    THEN {AutoResult(FALSE, "fallback", PackOf(e)) : e \in FallbackSelect(voltage)}
    ELSE {AutoResult(FALSE, "fallback", BatteryPack(LiIonChemistry, 1))}

\* the outcomes of AutoDetectBatteryPack(voltage)
AutoDetectBatteryPack(voltage) ==
    IF voltage <= 0 THEN {AutoError}
    ELSE IF TableMatches(voltage) # {}
    THEN {AutoResult(FALSE, "table", PackOf(TableLookup(voltage)))}
    ELSE IF FallbackMatches(voltage) # {}
    THEN {AutoResult(FALSE, "fallback", PackOf(e)) : e \in FallbackSelect(voltage)}
    ELSE {AutoError}

(***************************************************************************)
(* The Battery configuration (battery.go:55-81) and the operations on it.  *)
(* The record holds the fields these operations read or write.             *)
(***************************************************************************)
ChemistryCustom == "custom"

\* the fields of a legacy custom-battery-type that migration reads: the
\* chemistry and the per-cell or pack voltage range under its new
\* (min-voltage, max-voltage) and old (minvoltage, maxvoltage) keys
LegacyType(chemistry, minVoltage, maxVoltage, oldMinV, oldMaxV) ==
    [Chemistry  |-> chemistry,
     MinVoltage |-> minVoltage,
     MaxVoltage |-> maxVoltage,
     OldMinV    |-> oldMinV,
     OldMaxV    |-> oldMaxV]

\* a nil CustomBatteryType
NilLegacyType == LegacyType("<nil>", 0, 0, 0, 0)

\* a nil Updated
NilUpdated == 0

\* a configuration in the new format: no timestamp and no legacy field
Battery(chemistry, manualCellCount, manuallyConfigured, minimumVoltageDetection, depletionHistoryHours, depletionWarningHours) ==
    [Chemistry               |-> chemistry,
     ManualCellCount         |-> manualCellCount,
     ManuallyConfigured      |-> manuallyConfigured,
     MinimumVoltageDetection |-> minimumVoltageDetection,
     DepletionHistoryHours   |-> depletionHistoryHours,
     DepletionWarningHours   |-> depletionWarningHours,
     Updated                 |-> NilUpdated,
     PresetBatteryType       |-> "",
     CustomBatteryType       |-> NilLegacyType]

\* DefaultBattery(): 1.0 V, 48 hours, 12 hours
DefaultBattery == Battery("", 0, FALSE, CentiVolt(100), 48, 12)

\* "1 hour to 1 week", "0 to 30 days"
MaxDepletionHistoryHours == 168
MaxDepletionWarningHours == 720

\* faulty variant: only the upper bound of the manual cell count is checked
batteryValidateFuncUpperOnly(b) ==
    \/ b.Chemistry # "" /\ b.Chemistry \notin Registered
    \/ b.ManualCellCount > MaxCellCount
    \/ b.MinimumVoltageDetection < 0
    \/ b.DepletionHistoryHours < 1 \/ b.DepletionHistoryHours > MaxDepletionHistoryHours
    \/ b.DepletionWarningHours < 0 \/ b.DepletionWarningHours > MaxDepletionWarningHours

\* batteryValidateFunc(b) returns an error
batteryValidateFunc(b) ==
    \/ b.Chemistry # "" /\ b.Chemistry \notin Registered
    \/ /\ b.ManualCellCount # 0
       /\ (b.ManualCellCount < 1 \/ b.ManualCellCount > MaxCellCount)
    \/ b.MinimumVoltageDetection < 0
    \/ b.DepletionHistoryHours < 1 \/ b.DepletionHistoryHours > MaxDepletionHistoryHours
    \/ b.DepletionWarningHours < 0 \/ b.DepletionWarningHours > MaxDepletionWarningHours

PackResult(err, bp) == [err |-> err, pack |-> bp]

\* faulty variant: the manual cell count is ignored
GetBatteryPackDetectOnly(b, voltage) ==
    IF b.Chemistry = "" THEN {PackResult(TRUE, NilPack)}
    ELSE IF b.Chemistry \notin Registered THEN {PackResult(TRUE, NilPack)}
    ELSE LET chemistryProfile == ChemistryProfiles[b.Chemistry]
         IN  {PackResult(FALSE, BatteryPack(chemistryProfile, n)) :
                 n \in PackDetectCellCount(BatteryPack(chemistryProfile, 0), voltage)}

\* the outcomes of b.GetBatteryPack(voltage)  (battery.go:275-298)
GetBatteryPack(b, voltage) ==
    IF b.Chemistry = "" THEN {PackResult(TRUE, NilPack)}
    ELSE IF b.Chemistry \notin Registered THEN {PackResult(TRUE, NilPack)}
    ELSE LET chemistryProfile == ChemistryProfiles[b.Chemistry]
         IN  IF b.ManualCellCount > 0
             THEN {PackResult(FALSE, BatteryPack(chemistryProfile, b.ManualCellCount))}
             ELSE IF voltage > 0
             THEN {PackResult(FALSE, BatteryPack(chemistryProfile, n)) :
                     n \in PackDetectCellCount(BatteryPack(chemistryProfile, 0), voltage)}
             ELSE {PackResult(FALSE, BatteryPack(chemistryProfile, 0))}

ProfileResult(err, type) == [err |-> err, type |-> type]

\* faulty variant: an unknown chemistry resolved to the Li-Ion profile
GetChemistryProfileWithDefault(b) ==
    IF b.Chemistry = "" THEN ProfileResult(TRUE, NilType)
    ELSE IF b.Chemistry \notin Registered THEN ProfileResult(FALSE, LiIonChemistry)
    ELSE ProfileResult(FALSE, ChemistryProfiles[b.Chemistry])

\* b.GetChemistryProfile()  (battery.go:300-312)
GetChemistryProfile(b) ==
    IF b.Chemistry = "" THEN ProfileResult(TRUE, NilType)
    ELSE IF b.Chemistry \notin Registered THEN ProfileResult(TRUE, NilType)
    ELSE ProfileResult(FALSE, ChemistryProfiles[b.Chemistry])

\* b.IsManuallyConfigured()  (battery.go:325-328)
IsManuallyConfigured(b) == b.ManuallyConfigured

SetResult(err, b) == [err |-> err, battery |-> b]

\* faulty variant: the chemistry is recorded without the override flag
SetManualChemistryUnflagged(b, chemistry) ==
    IF chemistry \notin Registered THEN SetResult(TRUE, b)
    ELSE SetResult(FALSE, [b EXCEPT !.Chemistry = chemistry])

\* b.SetManualChemistry(chemistry)  (battery.go:330-340)
SetManualChemistry(b, chemistry) ==
    IF chemistry \notin Registered THEN SetResult(TRUE, b)
    ELSE SetResult(FALSE, [b EXCEPT !.Chemistry = chemistry, !.ManuallyConfigured = TRUE])

\* faulty variant: the cell count is recorded without its upper bound
SetManualConfigurationUnbounded(b, chemistry, cellCount) ==
    IF chemistry # "" /\ chemistry \notin Registered THEN SetResult(TRUE, b)
    ELSE LET b1 == IF chemistry # "" THEN [b EXCEPT !.Chemistry = chemistry] ELSE b
             b2 == IF cellCount > 0 THEN [b1 EXCEPT !.ManualCellCount = cellCount] ELSE b1
         IN  SetResult(FALSE, [b2 EXCEPT !.ManuallyConfigured = TRUE])

\* b.SetManualConfiguration(chemistry, cellCount)  (battery.go:342-362); the
\* chemistry is recorded before the cell count is looked at
SetManualConfiguration(b, chemistry, cellCount) ==
    IF chemistry # "" /\ chemistry \notin Registered THEN SetResult(TRUE, b)
    ELSE LET b1 == IF chemistry # "" THEN [b EXCEPT !.Chemistry = chemistry] ELSE b
         IN  IF cellCount > 0 /\ (cellCount < 1 \/ cellCount > MaxCellCount)
             THEN SetResult(TRUE, b1)
             ELSE LET b2 == IF cellCount > 0
                            THEN [b1 EXCEPT !.ManualCellCount = cellCount]
                            ELSE b1
                  IN  SetResult(FALSE, [b2 EXCEPT !.ManuallyConfigured = TRUE])

\* b.ClearManualConfiguration()  (battery.go:364-369)
ClearManualConfiguration(b) ==
    [b EXCEPT !.ManuallyConfigured = FALSE, !.Chemistry = "", !.ManualCellCount = 0]

(***************************************************************************)
(* Migration of the legacy configuration format (battery.go:422-666).      *)
(* Voltages are in units; an average (a + b) / 2 is compared through the   *)
(* sum a + b, a per-cell average through its product with the cell count.  *)
(***************************************************************************)
\* needsMigration(battery)  (battery.go:441-445)
needsMigration(b) ==
    /\ b.Chemistry = ""
    /\ b.PresetBatteryType # "" \/ b.CustomBatteryType # NilLegacyType

\* presetToChemistry of migrateBatteryConfig and the cases of
\* estimateCellCountFromPreset, in the order of the source
presetTable ==
    << [preset |-> "lime",          chemistry |-> ChemistryLiIon,    cellCount |-> 10],
       [preset |-> "li-ion",        chemistry |-> ChemistryLiIon,    cellCount |-> 1],
       [preset |-> "lifepo4-6v",    chemistry |-> ChemistryLiFePO4,  cellCount |-> 2],
       [preset |-> "lifepo4-12v",   chemistry |-> ChemistryLiFePO4,  cellCount |-> 4],
       [preset |-> "lifepo4-24v",   chemistry |-> ChemistryLiFePO4,  cellCount |-> 8],
       [preset |-> "lead-acid-12v", chemistry |-> ChemistryLeadAcid, cellCount |-> 6],
       [preset |-> "lead-acid-24v", chemistry |-> ChemistryLeadAcid, cellCount |-> 12] >>

\* the keys of presetToChemistry
KnownPresets == {presetTable[i].preset : i \in 1..Len(presetTable)}

\* presetToChemistry[presetName], for a key of the map
presetToChemistry(presetName) ==
    presetTable[CHOOSE i \in 1..Len(presetTable) :
                    presetTable[i].preset = presetName].chemistry

\* faulty variant: every preset is taken for a single cell
estimateCellCountFromPresetSingle(presetName) ==
    IF presetName \in KnownPresets THEN 1 ELSE 0

\* estimateCellCountFromPreset(presetName)  (battery.go:532-552)
estimateCellCountFromPreset(presetName) ==
    IF presetName \in KnownPresets
    THEN presetTable[CHOOSE i \in 1..Len(presetTable) :
                         presetTable[i].preset = presetName].cellCount
    ELSE 0

\* determineChemistryFromCustomType(custom)  (battery.go:554-581)
determineChemistryFromCustomType(custom) ==
    LET minV == custom.MinVoltage
        maxV == custom.MaxVoltage
    IN  IF custom.Chemistry # "" THEN custom.Chemistry
        ELSE IF minV >= CentiVolt(240) /\ maxV <= CentiVolt(370) THEN ChemistryLiFePO4
        ELSE IF minV >= CentiVolt(290) /\ maxV <= CentiVolt(440) THEN ChemistryLiIon
        ELSE IF minV >= CentiVolt(170) /\ maxV <= CentiVolt(250) THEN ChemistryLeadAcid
        ELSE ChemistryCustom

\* estimateCellCountFromVoltageRange(minV, maxV, chemistry)
\* (battery.go:583-604), for minV + maxV > 0: int(avg/profileAvg + 0.5)
estimateCellCountFromVoltageRange(minV, maxV, chemistry) ==
    IF chemistry \notin Registered THEN 0
    ELSE LET profile    == ChemistryProfiles[chemistry]
             profileSum == profile.MinVoltage + profile.MaxVoltage
             cellCount  == (2 * (minV + maxV) + profileSum) \div (2 * profileSum)
         IN  IF cellCount < MinCellCount THEN MinCellCount
             ELSE IF cellCount > MaxCellCount THEN MaxCellCount
             ELSE cellCount

\* commonConfigs of estimateCellCountFromPackVoltage  (battery.go:612-626)
commonConfigs ==
    << [chemistry |-> ChemistryLeadAcid, cellCount |-> 6,  nominalV |-> CentiVolt(1150)],
       [chemistry |-> ChemistryLeadAcid, cellCount |-> 12, nominalV |-> CentiVolt(2300)],
       [chemistry |-> ChemistryLiFePO4,  cellCount |-> 4,  nominalV |-> CentiVolt(1280)],
       [chemistry |-> ChemistryLiFePO4,  cellCount |-> 8,  nominalV |-> CentiVolt(2560)],
       [chemistry |-> ChemistryLiIon,    cellCount |-> 3,  nominalV |-> CentiVolt(1110)],
       [chemistry |-> ChemistryLiIon,    cellCount |-> 4,  nominalV |-> CentiVolt(1480)],
       [chemistry |-> ChemistryLiIon,    cellCount |-> 7,  nominalV |-> CentiVolt(2590)],
       [chemistry |-> ChemistryLiIon,    cellCount |-> 8,  nominalV |-> CentiVolt(2960)],
       [chemistry |-> ChemistryLiIon,    cellCount |-> 10, nominalV |-> CentiVolt(3700)] >>

\* bestDiff := float32(999.0)
InitialBestDiff == CentiVolt(99900)

\* the loop of estimateCellCountFromPackVoltage from entry i on
\* (battery.go:631-637); packSum and bestDiff2 are twice the average pack
\* voltage and twice the best difference
RECURSIVE BestPackMatch(_, _, _, _)
BestPackMatch(packSum, i, bestMatch, bestDiff2) ==
    IF i > Len(commonConfigs) THEN [bestMatch |-> bestMatch, bestDiff2 |-> bestDiff2]
    ELSE LET diff2 == Abs(packSum - 2 * commonConfigs[i].nominalV)
         IN  IF diff2 < bestDiff2
             THEN BestPackMatch(packSum, i + 1, commonConfigs[i].cellCount, diff2)
             ELSE BestPackMatch(packSum, i + 1, bestMatch, bestDiff2)

\* estimateCellCountFromPackVoltage(minPackV, maxPackV)  (battery.go:606-645);
\* bestDiff < avgPackV * 0.2 is 5 * bestDiff2 < packSum
estimateCellCountFromPackVoltage(minPackV, maxPackV) ==
    LET packSum == minPackV + maxPackV
        best    == BestPackMatch(packSum, 1, 0, 2 * InitialBestDiff)
    IN  IF 5 * best.bestDiff2 < packSum THEN best.bestMatch ELSE 0

\* determineChemistryFromPackVoltage(minPackV, maxPackV, cellCount)
\* (battery.go:647-666); avgPerCell >= x is packSum >= 2 * cellCount * x
determineChemistryFromPackVoltage(minPackV, maxPackV, cellCount) ==
    LET packSum   == minPackV + maxPackV
        AtLeast(cv) == packSum >= 2 * cellCount * CentiVolt(cv)
        AtMost(cv)  == packSum <= 2 * cellCount * CentiVolt(cv)
    IN  IF cellCount = 0 THEN ChemistryCustom
        ELSE IF AtLeast(290) /\ AtMost(440) THEN ChemistryLiIon
        ELSE IF AtLeast(240) /\ AtMost(370) THEN ChemistryLiFePO4
        ELSE IF AtLeast(170) /\ AtMost(250) THEN ChemistryLeadAcid
        ELSE ChemistryCustom

\* an average above this is taken for a pack voltage: avgVoltage > 5.0
PackVoltageThreshold == CentiVolt(500)

MigrateResult(err, b) == [err |-> err, battery |-> b]

\* Battery{}
ZeroBattery == Battery("", 0, FALSE, 0, 0, 0)

\* nothing was migrated yet
NoMigration == MigrateResult(FALSE, ZeroBattery)

\* custom with the values under the old field names copied to the new ones
\* (battery.go:486-491)
WithOldFieldNames(custom) ==
    LET c1 == IF custom.OldMinV > 0 /\ custom.MinVoltage = 0
              THEN [custom EXCEPT !.MinVoltage = custom.OldMinV] ELSE custom
    IN  IF c1.OldMaxV > 0 /\ c1.MaxVoltage = 0
        THEN [c1 EXCEPT !.MaxVoltage = c1.OldMaxV] ELSE c1

\* the preset branch of migrateBatteryConfig  (battery.go:462-479), for a
\* key of presetToChemistry
MigratePreset(old) ==
    LET cellCount == estimateCellCountFromPreset(old.PresetBatteryType)
    IN  [old EXCEPT !.Chemistry = presetToChemistry(old.PresetBatteryType),
                    !.ManuallyConfigured = TRUE,
                    !.ManualCellCount = IF cellCount > 0 THEN cellCount ELSE @]

\* the custom branch of migrateBatteryConfig  (battery.go:481-518)
MigrateCustom(old) ==
    LET custom    == WithOldFieldNames(old.CustomBatteryType)
        minV      == custom.MinVoltage
        maxV      == custom.MaxVoltage
        chemistry == determineChemistryFromCustomType(custom)
        new       == [old EXCEPT !.Chemistry = chemistry, !.ManuallyConfigured = TRUE]
        packCount == estimateCellCountFromPackVoltage(minV, maxV)
        cellCount == estimateCellCountFromVoltageRange(minV, maxV, chemistry)
    IN  IF ~(minV > 0 /\ maxV > 0) THEN new
        ELSE IF minV + maxV > 2 * PackVoltageThreshold
        THEN IF packCount > 0
             THEN [new EXCEPT !.ManualCellCount = packCount,
                              !.Chemistry =
                                  determineChemistryFromPackVoltage(minV, maxV, packCount)]
             ELSE new
        ELSE IF cellCount > 0 THEN [new EXCEPT !.ManualCellCount = cellCount]
        ELSE new

\* faulty variant: the legacy custom type is left in place
ClearLegacyFieldsPresetOnly(b) ==
    [b EXCEPT !.PresetBatteryType = "", !.Updated = NilUpdated]

\* "Clear old fields after migration"  (battery.go:523-527)
ClearLegacyFields(b) ==
    [b EXCEPT !.PresetBatteryType = "",
              !.CustomBatteryType = NilLegacyType,
              !.Updated = NilUpdated]

\* migrateBatteryConfig(old)  (battery.go:447-530)
migrateBatteryConfig(old) ==
    IF old.PresetBatteryType # ""
    THEN IF old.PresetBatteryType \notin KnownPresets
         THEN MigrateResult(TRUE, ZeroBattery)
         ELSE MigrateResult(FALSE, ClearLegacyFields(MigratePreset(old)))
    ELSE IF old.CustomBatteryType # NilLegacyType
    THEN MigrateResult(FALSE, ClearLegacyFields(MigrateCustom(old)))
    ELSE MigrateResult(FALSE, ClearLegacyFields(old))

\* batteryMapToStruct(m) for a map that decodes into s  (battery.go:422-439)
batteryMapToStruct(s) ==
    IF needsMigration(s) THEN migrateBatteryConfig(s) ELSE MigrateResult(FALSE, s)

(***************************************************************************)
(* The settings sync: filterUnchangedSettings                              *)
(* (internal/cacophony-config-sync/main.go:288-345).  A settings map is a  *)
(* function from keys to values; a value is a time or something else.      *)
(***************************************************************************)
\* a time.Time value
TimeValue(t) == [isTime |-> TRUE, v |-> t]

\* a value that is not a time.Time: a setting, or an unparsed timestamp
OtherValue == [isTime |-> FALSE, v |-> 0]

EmptyMap == [k \in {} |-> OtherValue]

\* Name, Key and the API and map keys of the Mappings of the entries of
\* ConfigSections; config.ThermalRecorderKey is a name of its own
ThermalRecorderKey == "config.ThermalRecorderKey"

Mapping(apiKey, mapKey) == [APIKey |-> apiKey, MapKey |-> mapKey]

ConfigSections ==
    << [Name |-> "thermalRecording", Key |-> ThermalRecorderKey,
        Mappings |-> << Mapping("useLowPowerMode", "use-low-power-mode"),
                        Mapping("updated", "updated") >>],
       [Name |-> "audioRecording", Key |-> "audio-recording",
        Mappings |-> << Mapping("audioMode", "audio-mode"),
                        Mapping("audioSeed", "random-seed"),
                        Mapping("updated", "updated") >>],
       [Name |-> "windows", Key |-> "windows",
        Mappings |-> << Mapping("startRecording", "start-recording"),
                        Mapping("stopRecording", "stop-recording"),
                        Mapping("updated", "updated") >>],
       [Name |-> "location", Key |-> "location",
        Mappings |-> << Mapping("lat", "latitude"),
                        Mapping("lng", "longitude") >>],
       [Name |-> "battery", Key |-> "battery",
        Mappings |-> << Mapping("chemistry", "chemistry"),
                        Mapping("manualCellCount", "manual-cell-count"),
                        Mapping("updated", "updated") >>] >>

\* the MapKey of the first mapping whose APIKey is "updated", "" if none
UpdatedField(section) ==
    LET found == {i \in 1..Len(section.Mappings) : section.Mappings[i].APIKey = "updated"}
    IN  IF found = {} THEN ""
        ELSE section.Mappings[CHOOSE i \in found : \A j \in found : i <= j].MapKey

\* faulty variant: a time equal to the device's counts as newer
AfterOrEqual(t, u) == t.v >= u.v

\* t.After(u)
After(t, u) == t.v > u.v

\* a device section: deviceSettings[section.Name].(map[string]interface{})
DeviceSection(isMap, map) == [isMap |-> isMap, map |-> map]

\* the body of the loop for one section whose key is in mappedSettings: the
\* section is put into filteredSettings
KeepSection(section, mappedSettings, deviceSettings) ==
    LET mappedSection == mappedSettings[section.Key]
        deviceOk      == /\ section.Name \in DOMAIN deviceSettings
                         /\ deviceSettings[section.Name].isMap
        deviceSection == deviceSettings[section.Name].map
        updatedField  == UpdatedField(section)
        mappedTimeOk  == /\ updatedField \in DOMAIN mappedSection
                         /\ mappedSection[updatedField].isTime
        deviceTimeOk  == /\ "updated" \in DOMAIN deviceSection
                         /\ deviceSection["updated"].isTime
    IN  IF ~deviceOk THEN TRUE
        ELSE IF updatedField # ""
        THEN IF mappedTimeOk /\ deviceTimeOk
             THEN After(mappedSection[updatedField], deviceSection["updated"])
             ELSE TRUE
        ELSE TRUE

\* filterUnchangedSettings(mappedSettings, deviceSettings), for
\* mappedSettings whose values are maps
filterUnchangedSettings(mappedSettings, deviceSettings) ==
    LET kept == {i \in 1..Len(ConfigSections) :
                    /\ ConfigSections[i].Key \in DOMAIN mappedSettings
                    /\ KeepSection(ConfigSections[i], mappedSettings, deviceSettings)}
    IN  [k \in {ConfigSections[i].Key : i \in kept} |-> mappedSettings[k]]

\* no call of filterUnchangedSettings yet
NoSync == [called |-> FALSE, mapped |-> EmptyMap, device |-> EmptyMap, filtered |-> EmptyMap]

(***************************************************************************)
(* The config file and its lock (config.go).  file is the config file and  *)
(* the owner of the lock on its lock file, conf the Config instances that  *)
(* were opened on it with New.  A Config holds the settings it read, the   *)
(* value it set for its section, its Flock and its position in Set or      *)
(* Update.  The Flock is github.com/gofrs/flock v0.8.1 (go.mod:11):        *)
(* TryLock returns true at once on a Flock that is locked already, and     *)
(* Unlock releases a locked Flock and does nothing on one that is not.     *)
(***************************************************************************)
\* two Config instances on the same file, each setting a section of its own
Instances == {1, 2}

SectionOf(i) == IF i = 1 THEN "windows" ELSE "location"

SectionKeys == {SectionOf(i) : i \in Instances}

\* no owner of the lock
Unlocked == 0

\* no value set
Unset == 0

\* the values Set is called with
SetValues == {1, 2}

\* the config file before any Set, its lock free
NewFile == [content |-> [k \in SectionKeys |-> Unset], lock |-> Unlocked]

\* a Config returned by New: the file read, the lock released  (config.go:76-96)
NewConfig ==
    [op |-> "none", at |-> "idle", locked |-> FALSE,
     config |-> NewFile.content, override |-> Unset, value |-> Unset, err |-> FALSE]

\* c.getFileLock() succeeds: the lock is free, or c.fileLock holds it already
CanLock(i) == conf[i].locked \/ file.lock = Unlocked

\* the file after c.fileLock.Unlock(): released if this Flock held the lock
Unlock(i) == IF conf[i].locked THEN [file EXCEPT !.lock = Unlocked] ELSE file

\* what c.v.WriteConfig() writes: the settings read, overlaid with the value
\* this Config set
AllSettings(i) ==
    [k \in SectionKeys |->
        IF k = SectionOf(i) /\ conf[i].override # Unset
        THEN conf[i].override ELSE conf[i].config[k]]

(***************************************************************************)
(* The inputs the operations are called with.                              *)
(***************************************************************************)
Offsets == (-MaxOffset)..MaxOffset

Range(s) == {s[i] : i \in 1..Len(s)}

\* a zero, a negative and two out-of-range readings
OddVoltages == {0, -CentiVolt(500), HugeVoltage, -HugeVoltage}

\* pack voltages at every curve point and half way between adjacent curve
\* points, and at, just below and just above the ends of the curve and the
\* per-cell minimum and maximum
PercentVoltages(bp) ==
    IF bp.Type = NilType \/ bp.CellCount <= 0 \/ bp.Type.Voltages = <<>>
    THEN {0, CentiVolt(1300)}
    ELSE LET vs == bp.Type.Voltages
             ends == {vs[1], vs[Len(vs)], bp.Type.MinVoltage, bp.Type.MaxVoltage}
             mids == {(vs[i] + vs[i + 1]) \div 2 : i \in 1..(Len(vs) - 1)}
         IN  {bp.CellCount * c : c \in Range(vs) \cup mids}
               \cup {bp.CellCount * c + d : c \in ends, d \in Offsets}
               \cup OddVoltages

\* voltages at n * nominal, and at and around (k + 1/2) * nominal
DetectVoltages(chemistry) ==
    IF chemistry \notin Registered
    THEN {0, CentiVolt(1200)}
    ELSE LET sum == ChemistryProfiles[chemistry].MinVoltage
                      + ChemistryProfiles[chemistry].MaxVoltage
         IN  {(n * sum) \div 2 : n \in 0..(MaxCellCount + 1)}
               \cup {((2 * k + 1) * sum) \div 4 + d : k \in 0..MaxCellCount, d \in Offsets}
               \cup OddVoltages

\* the voltages of TestAutoDetectBatteryPack and two more between the
\* windows of the table, in hundredths of a volt
TestVoltages ==
    {CentiVolt(cv) : cv \in {386, 660, 210, 260, 400, 650, 670, 780, 860, 1050,
                             1200, 1350, 1720, 2100, 2700, 3500, 150, 2200, 2300}}

\* the bounds of every scaled window, and just below and above them
AutoVoltages ==
    {n * ChemistryProfiles[c].MinVoltage + d :
        c \in Registered, n \in 1..(MaxFallbackCells + 1), d \in Offsets}
      \cup {n * ChemistryProfiles[c].MaxVoltage + d :
        c \in Registered, n \in 1..(MaxFallbackCells + 1), d \in Offsets}
      \cup TestVoltages
      \cup OddVoltages

(***************************************************************************)
(* State.  pack is the BatteryPack constructed last; call is the call made *)
(* last, with its arguments and its outcome; last is the call made before  *)
(* it when that was the same call (the same operation on the same          *)
(* arguments), and NoCall otherwise.                                       *)
(***************************************************************************)
Call(op, chemistry, voltage, err, percent, cells, phase) ==
    [op |-> op, chemistry |-> chemistry, voltage |-> voltage, err |-> err,
     percent |-> percent, cells |-> cells, phase |-> phase]

NoCall == Call("none", "", 0, FALSE, Rat(0, 1), 0, "none")

Init ==
    /\ pack = NilPack
    /\ call = NoCall
    /\ last = NoCall
    /\ battery = DefaultBattery
    /\ lastOk = NoCall.op
    /\ migrated = NoMigration
    /\ sync = NoSync
    /\ file = NewFile
    /\ conf = [i \in Instances |-> NewConfig]

\* pack, err := battery.NewBatteryPack(chemistry, cellCount)  (battery.go:83-94)
NewBatteryPack(chemistry, cellCount) ==
    /\ pack' = IF chemistry \in Registered
               THEN BatteryPack(ChemistryProfiles[chemistry], cellCount)
               ELSE NilPack
    /\ call' = Call("NewBatteryPack", chemistry, 0, chemistry \notin Registered,
                    Rat(0, 1), cellCount, "none")
    /\ last' = NoCall
    /\ UNCHANGED battery
    /\ UNCHANGED <<lastOk, envVars>>

\* percent, err := pack.VoltageToPercent(voltage)
CallVoltageToPercent(voltage) ==
    LET r == VoltageToPercent(pack, voltage)
    IN  /\ call' = Call("VoltageToPercent", pack.Type.Chemistry, voltage, r.err,
                        r.percent, pack.CellCount, "none")
        /\ last' = IF call.op = "VoltageToPercent" /\ call.voltage = voltage
                   THEN call ELSE NoCall
        /\ UNCHANGED <<pack, battery>>
        /\ UNCHANGED <<lastOk, envVars>>

\* cells := battery.DetectCellCount(chemistry, voltage); the pack is the
\* one DetectCellCount constructs, &BatteryPack{Type: &batteryType}
CallDetectCellCount(chemistry, voltage) ==
    \E cells \in DetectCellCount(chemistry, voltage) :
        /\ pack' = IF chemistry \in Registered
                   THEN BatteryPack(ChemistryProfiles[chemistry], 0)
                   ELSE NilPack
        /\ call' = Call("DetectCellCount", chemistry, voltage, FALSE, Rat(0, 1),
                        cells, "none")
        /\ last' = IF /\ call.op = "DetectCellCount"
                      /\ call.chemistry = chemistry
                      /\ call.voltage = voltage
                   THEN call ELSE NoCall
        /\ UNCHANGED battery
        /\ UNCHANGED <<lastOk, envVars>>

\* pack, err := AutoDetectBatteryPack(voltage)
CallAutoDetectBatteryPack(voltage) ==
    \E r \in AutoDetectBatteryPack(voltage) :
        /\ pack' = r.pack
        /\ call' = Call("AutoDetectBatteryPack", r.pack.Type.Chemistry, voltage, r.err,
                        Rat(0, 1), r.pack.CellCount, r.phase)
        /\ last' = IF call.op = "AutoDetectBatteryPack" /\ call.voltage = voltage
                   THEN call ELSE NoCall
        /\ UNCHANGED battery
        /\ UNCHANGED <<lastOk, envVars>>

Next ==
    \/ \E c \in Registered \cup {UnknownChemistry}, n \in 0..MaxCellCount :
          NewBatteryPack(c, n)
    \/ \E v \in PercentVoltages(pack) : CallVoltageToPercent(v)
    \/ \E c \in Registered \cup {UnknownChemistry} :
          \E v \in DetectVoltages(c) : CallDetectCellCount(c, v)
    \/ \E v \in AutoVoltages : CallAutoDetectBatteryPack(v)

Spec == Init /\ [][Next]_vars

(***************************************************************************)
(* The operations on a Battery configuration.  battery is the              *)
(* configuration and lastOk the most recent of the calls                   *)
(* SetManualChemistry, SetManualConfiguration, ClearManualConfiguration    *)
(* on it that returned no error ("none" when there was none); for          *)
(* GetBatteryPack and GetChemistryProfile call.chemistry                   *)
(* is the chemistry of the pack or profile returned ("<nil>" for nil), for *)
(* the setters call.chemistry and call.cells are the arguments.            *)
(***************************************************************************)
ConfigChemistries ==
    {"", ChemistryLiFePO4, ChemistryLiIon, UnknownChemistry, ChemistryCustom}

ConfigCellCounts == {-1, 0, 1, 4, MaxCellCount, MaxCellCount + 1}

\* the tuning fields of DefaultBattery, of Battery{}, and one field out of range
Tunings ==
    { <<CentiVolt(100), 48, 12>>,
      <<0, 0, 0>>,
      <<-1, 48, 12>>,
      <<CentiVolt(100), MaxDepletionHistoryHours + 1, 12>>,
      <<CentiVolt(100), 48, MaxDepletionWarningHours + 1>> }

\* the configurations a config file or a struct literal can hold
Configs ==
    {Battery(c, n, m, CentiVolt(100), 48, 12) :
        c \in ConfigChemistries, n \in ConfigCellCounts, m \in BOOLEAN}
      \cup {Battery(c, 0, FALSE, t[1], t[2], t[3]) : c \in ConfigChemistries, t \in Tunings}

\* the readings of the battery tests, a zero, a negative and a huge one
ConfigVoltages ==
    {CentiVolt(cv) : cv \in {0, -500, 150, 386, 1200, 1300, 1480, 2400, 2600}}
      \cup {HugeVoltage}

\* a configuration decoded from the config file, or a Battery{...} literal
LoadBattery(b) ==
    /\ battery' = b
    /\ call' = NoCall
    /\ last' = NoCall
    /\ lastOk' = NoCall.op
    /\ UNCHANGED <<pack, envVars>>

\* err := batteryValidateFunc(battery)
CallBatteryValidateFunc ==
    /\ call' = Call("batteryValidateFunc", battery.Chemistry, 0,
                    batteryValidateFunc(battery), Rat(0, 1),
                    battery.ManualCellCount, "none")
    /\ last' = NoCall
    /\ UNCHANGED <<pack, battery>>
    /\ UNCHANGED <<lastOk, envVars>>

\* pack, err := battery.GetBatteryPack(voltage)
CallGetBatteryPack(voltage) ==
    \E r \in GetBatteryPack(battery, voltage) :
        /\ pack' = r.pack
        /\ call' = Call("GetBatteryPack", r.pack.Type.Chemistry, voltage, r.err,
                        Rat(0, 1), r.pack.CellCount, "none")
        /\ last' = NoCall
        /\ UNCHANGED battery
        /\ UNCHANGED <<lastOk, envVars>>

\* profile, err := battery.GetChemistryProfile()
CallGetChemistryProfile ==
    LET r == GetChemistryProfile(battery)
    IN  /\ call' = Call("GetChemistryProfile", r.type.Chemistry, 0, r.err,
                        Rat(0, 1), 0, "none")
        /\ last' = NoCall
        /\ UNCHANGED <<pack, battery>>
        /\ UNCHANGED <<lastOk, envVars>>

\* err := battery.SetManualChemistry(chemistry)
CallSetManualChemistry(chemistry) ==
    LET r == SetManualChemistry(battery, chemistry)
    IN  /\ battery' = r.battery
        /\ call' = Call("SetManualChemistry", chemistry, 0, r.err, Rat(0, 1), 0, "none")
        /\ last' = NoCall
        /\ lastOk' = IF r.err THEN lastOk ELSE "SetManualChemistry"
        /\ UNCHANGED <<pack, envVars>>

\* err := battery.SetManualConfiguration(chemistry, cellCount)
CallSetManualConfiguration(chemistry, cellCount) ==
    LET r == SetManualConfiguration(battery, chemistry, cellCount)
    IN  /\ battery' = r.battery
        /\ call' = Call("SetManualConfiguration", chemistry, 0, r.err, Rat(0, 1),
                        cellCount, "none")
        /\ last' = NoCall
        /\ lastOk' = IF r.err THEN lastOk ELSE "SetManualConfiguration"
        /\ UNCHANGED <<pack, envVars>>

\* battery.ClearManualConfiguration()
CallClearManualConfiguration ==
    /\ battery' = ClearManualConfiguration(battery)
    /\ call' = Call("ClearManualConfiguration", "", 0, FALSE, Rat(0, 1), 0, "none")
    /\ last' = NoCall
    /\ lastOk' = "ClearManualConfiguration"
    /\ UNCHANGED <<pack, envVars>>

ConfigNext ==
    \/ \E b \in Configs : LoadBattery(b)
    \/ CallBatteryValidateFunc
    \/ \E v \in ConfigVoltages : CallGetBatteryPack(v)
    \/ CallGetChemistryProfile
    \/ \E c \in ConfigChemistries : CallSetManualChemistry(c)
    \/ \E c \in ConfigChemistries, n \in ConfigCellCounts :
          CallSetManualConfiguration(c, n)
    \/ CallClearManualConfiguration
    \/ \E c \in ConfigChemistries, n \in ConfigCellCounts : NewBatteryPack(c, n)

ConfigSpec == Init /\ [][ConfigNext]_vars

\* the configurations reached from DefaultBattery() by the three calls that
\* change the manual override, with any arguments
ManualNext ==
    \/ \E c \in ConfigChemistries : CallSetManualChemistry(c)
    \/ \E c \in ConfigChemistries, n \in ConfigCellCounts :
          CallSetManualConfiguration(c, n)
    \/ CallClearManualConfiguration

ManualSpec == Init /\ [][ManualNext]_vars

(***************************************************************************)
(* Migration.  battery is the configuration handed to the function (for    *)
(* batteryMapToStruct the struct its map decodes into), migrated what the  *)
(* function returned; call.chemistry and call.cells are those of the       *)
(* returned configuration, call.phase tells whether migrateBatteryConfig   *)
(* ran.                                                                    *)
(***************************************************************************)
\* the seven presets, none, and a name that is not a preset
PresetNames == KnownPresets \cup {"", "nimh-9v"}

\* the voltage ranges of legacy custom types, in hundredths of a volt: none,
\* per-cell ranges of the three chemistries, pack ranges of a 12 V LiFePO4,
\* a 3S Li-Ion and a lime pack, and two ranges no chemistry matches
LegacyRanges ==
    {<<0, 0>>, <<300, 420>>, <<250, 360>>, <<180, 230>>, <<1000, 1460>>,
     <<900, 1260>>, <<3000, 4200>>, <<500, 600>>, <<100, 150>>}

\* the custom type of the migration test
ExampleLegacyType == LegacyType(ChemistryLiIon, CentiVolt(300), CentiVolt(420), 0, 0)

\* custom types without a chemistry name and any of the ranges, under the
\* new or the old field names, and with a chemistry name, registered or not
LegacyTypes ==
    {LegacyType("", CentiVolt(r[1]), CentiVolt(r[2]), 0, 0) : r \in LegacyRanges}
      \cup {LegacyType("", 0, 0, CentiVolt(r[1]), CentiVolt(r[2])) :
                r \in {<<300, 420>>, <<1000, 1460>>}}
      \cup {ExampleLegacyType,
            LegacyType(ChemistryLiIon, 0, 0, 0, 0),
            LegacyType("nimh", CentiVolt(100), CentiVolt(150), 0, 0)}

\* the legacy fields of a battery section: none, a preset, a custom type, or
\* both
LegacyFields ==
    {<<p, NilLegacyType>> : p \in PresetNames}
      \cup {<<"", t>> : t \in LegacyTypes}
      \cup {<<p, ExampleLegacyType>> : p \in {"lead-acid-24v", "nimh-9v"}}

\* a timestamp of a config section
SomeUpdated == 1

\* the structs a battery section decodes into: in the legacy format, in the
\* new format, and with fields of both; written by hand (no timestamp, not
\* marked manual) or by the program
MigrationConfigs ==
    {[Battery(c, n, m, CentiVolt(100), 48, 12) EXCEPT
          !.PresetBatteryType = l[1], !.CustomBatteryType = l[2],
          !.Updated = IF m THEN SomeUpdated ELSE NilUpdated] :
        c \in {"", ChemistryLiFePO4}, n \in {0, 4}, m \in BOOLEAN, l \in LegacyFields}

\* migrateBatteryConfig is called by batteryMapToStruct and by the tests, on
\* configurations that hold a legacy field
LegacyConfigs ==
    {b \in MigrationConfigs :
        b.PresetBatteryType # "" \/ b.CustomBatteryType # NilLegacyType}

\* migrated, err := migrateBatteryConfig(old)
CallMigrateBatteryConfig(old) ==
    LET r == migrateBatteryConfig(old)
    IN  /\ battery' = old
        /\ migrated' = r
        /\ call' = Call("migrateBatteryConfig", r.battery.Chemistry, 0, r.err,
                        Rat(0, 1), r.battery.ManualCellCount, "migrated")
        /\ last' = NoCall
        /\ lastOk' = NoCall.op
        /\ UNCHANGED <<pack, sync, file, conf>>

\* the struct s decoded from a battery section goes through batteryMapToStruct;
\* last is the call whose result s is, if any
MapToStruct(s, previous) ==
    LET r == batteryMapToStruct(s)
    IN  /\ battery' = s
        /\ migrated' = r
        /\ call' = Call("batteryMapToStruct", r.battery.Chemistry, 0, r.err,
                        Rat(0, 1), r.battery.ManualCellCount,
                        IF needsMigration(s) THEN "migrated" ELSE "kept")
        /\ last' = previous
        /\ lastOk' = NoCall.op
        /\ UNCHANGED <<pack, sync, file, conf>>

\* s, err := batteryMapToStruct(m) on a battery section of a config file
CallBatteryMapToStruct(s) == MapToStruct(s, NoCall)

\* the configuration a migration returned is written out and decoded again
CallBatteryMapToStructAgain ==
    /\ call.op \in {"migrateBatteryConfig", "batteryMapToStruct"}
    /\ ~migrated.err
    /\ MapToStruct(migrated.battery, call)

MigrationNext ==
    \/ \E old \in LegacyConfigs : CallMigrateBatteryConfig(old)
    \/ \E s \in MigrationConfigs : CallBatteryMapToStruct(s)
    \/ CallBatteryMapToStructAgain

MigrationSpec == Init /\ [][MigrationNext]_vars

(***************************************************************************)
(* The settings sync.  sync holds the arguments and the result of the last *)
(* call of filterUnchangedSettings.                                        *)
(***************************************************************************)
\* the value under "updated": none, an unparsed one, and two times
NoValue == [isTime |-> FALSE, v |-> -1]

UpdatedValues == {NoValue, OtherValue, TimeValue(1), TimeValue(2)}

\* a section map with one setting and, unless updated is NoValue, "updated"
SectionMap(settingKey, updated) ==
    [k \in {settingKey} \cup (IF updated = NoValue THEN {} ELSE {"updated"}) |->
        IF k = "updated" THEN updated ELSE OtherValue]

\* what the server sent for a section: nothing, or a map
MappedOptions ==
    {[present |-> FALSE, updated |-> NoValue]}
      \cup {[present |-> TRUE, updated |-> u] : u \in UpdatedValues}

\* what the device holds for a section: nothing, a value that is no map, or
\* a map
DeviceOptions ==
    {[kind |-> "absent", updated |-> NoValue], [kind |-> "notmap", updated |-> NoValue]}
      \cup {[kind |-> "map", updated |-> u] : u \in UpdatedValues}

SectionCase(m, d) == [m |-> m, d |-> d]

AbsentCase ==
    SectionCase([present |-> FALSE, updated |-> NoValue],
                [kind |-> "absent", updated |-> NoValue])

\* server and device times of a section: newer, equal, older
TimedCase(t, u) ==
    SectionCase([present |-> TRUE, updated |-> TimeValue(t)],
                [kind |-> "map", updated |-> TimeValue(u)])

\* windows in every combination, audioRecording and location in a few
SyncInputs ==
    [windows  : {SectionCase(m, d) : m \in MappedOptions, d \in DeviceOptions},
     audio    : {AbsentCase, TimedCase(2, 1), TimedCase(1, 1), TimedCase(1, 2)},
     location : {AbsentCase, TimedCase(1, 1),
                 SectionCase([present |-> TRUE, updated |-> NoValue],
                             [kind |-> "map", updated |-> NoValue])},
     unknown  : BOOLEAN]

\* the section of ConfigSections with this Name
SectionNamed(name) ==
    ConfigSections[CHOOSE i \in 1..Len(ConfigSections) : ConfigSections[i].Name = name]

CaseOf(in, name) ==
    CASE name = "windows"        -> in.windows
      [] name = "audioRecording" -> in.audio
      [] name = "location"       -> in.location

VariedSections == {"windows", "audioRecording", "location"}

\* mappedSettings, keyed by section.Key, with the section "unknown" or not
MappedSettingsOf(in) ==
    LET present == {n \in VariedSections : CaseOf(in, n).m.present}
        keys    == {SectionNamed(n).Key : n \in present}
                     \cup (IF in.unknown THEN {"unknown"} ELSE {})
    IN  [k \in keys |->
            IF k = "unknown" THEN SectionMap("key", TimeValue(2))
            ELSE LET n == CHOOSE n \in present : SectionNamed(n).Key = k
                 IN  SectionMap(SectionNamed(n).Mappings[1].MapKey, CaseOf(in, n).m.updated)]

\* deviceSettings, keyed by section.Name
DeviceSettingsOf(in) ==
    LET present == {n \in VariedSections : CaseOf(in, n).d.kind # "absent"}
    IN  [n \in present |->
            IF CaseOf(in, n).d.kind = "notmap" THEN DeviceSection(FALSE, EmptyMap)
            ELSE DeviceSection(TRUE, SectionMap(SectionNamed(n).Mappings[1].APIKey,
                                                CaseOf(in, n).d.updated))]

\* filteredSettings := s.filterUnchangedSettings(mappedSettings, deviceSettings)
CallFilterUnchangedSettings(mappedSettings, deviceSettings) ==
    /\ sync' = [called   |-> TRUE,
                mapped   |-> mappedSettings,
                device   |-> deviceSettings,
                filtered |-> filterUnchangedSettings(mappedSettings, deviceSettings)]
    /\ UNCHANGED <<pack, call, last, battery, lastOk, migrated, file, conf>>

SyncNext ==
    \E in \in SyncInputs :
        CallFilterUnchangedSettings(MappedSettingsOf(in), DeviceSettingsOf(in))

SyncSpec == Init /\ [][SyncNext]_vars

(***************************************************************************)
(* Set and Update on the Config instances, step by step: the two instances *)
(* may belong to different processes.                                      *)
(***************************************************************************)
BatteryVars == <<pack, call, last, battery, lastOk, migrated, sync>>

\* c.Set(key, value) up to its call of c.Update(): getFileLock succeeds, or
\* times out because another instance holds the lock  (config.go:103-110)
CallSet(i, value) ==
    /\ conf[i].at = "idle"
    /\ IF CanLock(i)
       THEN /\ file' = [file EXCEPT !.lock = i]
            /\ conf' = [conf EXCEPT ![i].op = "Set", ![i].at = "Update",
                                    ![i].locked = TRUE, ![i].value = value,
                                    ![i].err = FALSE]
       ELSE /\ conf' = [conf EXCEPT ![i].err = TRUE]
            /\ UNCHANGED file
    /\ UNCHANGED BatteryVars

\* c.Update() up to ReadInConfig, called by Set or on its own: getFileLock
\* (config.go:179-182)
CallUpdate(i) ==
    /\ conf[i].at = "idle" \/ (conf[i].op = "Set" /\ conf[i].at = "Update")
    /\ IF CanLock(i)
       THEN /\ file' = [file EXCEPT !.lock = i]
            /\ conf' = [conf EXCEPT ![i].op = IF @ = "none" THEN "Update" ELSE @,
                                    ![i].at = "ReadInConfig",
                                    ![i].locked = TRUE, ![i].err = FALSE]
       ELSE /\ conf' = [conf EXCEPT ![i].err = TRUE]
            /\ UNCHANGED file
    /\ UNCHANGED BatteryVars

\* return c.v.ReadInConfig()  (config.go:184)
ReadInConfig(i) ==
    /\ conf[i].at = "ReadInConfig"
    /\ conf' = [conf EXCEPT ![i].config = file.content, ![i].at = "UpdateUnlock"]
    /\ UNCHANGED <<file, BatteryVars>>

\* the deferred c.fileLock.Unlock() of Update  (config.go:183); Update
\* returns, to Set or to the caller
UpdateUnlock(i) ==
    /\ conf[i].at = "UpdateUnlock"
    /\ file' = Unlock(i)
    /\ conf' = [conf EXCEPT ![i].locked = FALSE,
                            ![i].op = IF @ = "Update" THEN "none" ELSE @,
                            ![i].at = IF conf[i].op = "Update" THEN "idle" ELSE "set"]
    /\ UNCHANGED BatteryVars

\* c.set(key, value)  (config.go:118, 301-304)
SetValue(i) ==
    /\ conf[i].at = "set"
    /\ conf' = [conf EXCEPT ![i].override = conf[i].value, ![i].at = "Write"]
    /\ UNCHANGED <<file, BatteryVars>>

\* c.Write(), AutoWrite being true  (config.go:119-121, 275-290)
Write(i) ==
    /\ conf[i].at = "Write"
    /\ file' = [file EXCEPT !.content = AllSettings(i)]
    /\ conf' = [conf EXCEPT ![i].at = "Unlock"]
    /\ UNCHANGED BatteryVars

\* the deferred c.fileLock.Unlock() of Set  (config.go:109); Set returns
SetUnlock(i) ==
    /\ conf[i].at = "Unlock"
    /\ file' = Unlock(i)
    /\ conf' = [conf EXCEPT ![i].locked = FALSE, ![i].op = "none", ![i].at = "idle"]
    /\ UNCHANGED BatteryVars

LockNext ==
    \E i \in Instances :
        \/ \E value \in SetValues : CallSet(i, value)
        \/ CallUpdate(i)
        \/ ReadInConfig(i)
        \/ UpdateUnlock(i)
        \/ SetValue(i)
        \/ Write(i)
        \/ SetUnlock(i)

LockSpec == Init /\ [][LockNext]_vars

(***************************************************************************)
(* Packs of custom profiles.  BatteryType and BatteryPack are exported     *)
(* structs: a caller can hand VoltageToPercent a pack of any profile, with *)
(* curves of any length and content, and of any cell count.                *)
(***************************************************************************)
\* the curves tried hold at most MaxCurveLen points each
MaxCurveLen == 2

CurveVoltages == {CentiVolt(340), CentiVolt(417)}

CurvePercents == {-10, 110}

\* every pair of a Voltages and a Percent array of at most MaxCurveLen
\* elements: empty, of different lengths, repeated, unsorted, out of [0,100]
ArbitraryCurves ==
    UNION {[1..lv -> CurveVoltages] \X [1..lp -> CurvePercents] :
              lv \in 0..MaxCurveLen, lp \in 0..MaxCurveLen}

\* the custom profile of the specification's example, ascending curves of
\* three and four points (one with a repeated voltage), and an unsorted one
ExampleCurves ==
    { <<CentiVolts(<<340, 417>>), <<0, 100>>>>,
      <<CentiVolts(<<300, 340, 417>>), <<0, 20, 100>>>>,
      <<CentiVolts(<<300, 340, 340, 417>>), <<-10, 20, 60, 110>>>>,
      <<CentiVolts(<<300, 340, 380, 400, 417>>), <<0, 10, 30, 90, 100>>>>,
      <<CentiVolts(<<300, 417, 340, 400>>), <<0, 100, 50, 120>>>> }

\* a custom BatteryType; NormalizeCurves names it "custom"
CustomType(voltages, percents) ==
    [Chemistry  |-> ChemistryCustom,
     MinVoltage |-> CentiVolt(300),
     MaxVoltage |-> CentiVolt(420),
     Voltages   |-> voltages,
     Percent    |-> percents]

CustomTypes ==
    {CustomType(c[1], c[2]) : c \in ArbitraryCurves \cup ExampleCurves} \cup {NilType}

CurveCellCounts == {-1, 0, 1, 2}

\* pack := &BatteryPack{Type: type, CellCount: cellCount}
NewCustomPack(type, cellCount) ==
    /\ pack' = BatteryPack(type, cellCount)
    /\ call' = Call("BatteryPack", type.Chemistry, 0, FALSE, Rat(0, 1), cellCount, "none")
    /\ last' = NoCall
    /\ UNCHANGED battery
    /\ UNCHANGED <<lastOk, envVars>>

CurveNext ==
    \/ \E t \in CustomTypes, n \in CurveCellCounts : NewCustomPack(t, n)
    \/ \E c \in Registered \cup {UnknownChemistry}, n \in CurveCellCounts :
          NewBatteryPack(c, n)
    \/ \E v \in PercentVoltages(pack) : CallVoltageToPercent(v)

CurveSpec == Init /\ [][CurveNext]_vars

(***************************************************************************)
(* Properties.                                                             *)
(***************************************************************************)
Zero == Rat(0, 1)
Hundred == Rat(100, 1)

\* the last call was VoltageToPercent on a built-in chemistry with 1..24 cells
PercentOfBuiltIn ==
    /\ call.op = "VoltageToPercent"
    /\ call.chemistry \in Registered
    /\ call.cells \in MinCellCount..MaxCellCount

\* C1: for every built-in chemistry, every cell count in 1..24 and every pack
\* voltage (zero and negative ones included), VoltageToPercent returns no
\* error and a percentage p with 0 <= p <= 100.
C1_PercentInRange ==
    PercentOfBuiltIn =>
        /\ ~call.err
        /\ RatLE(Zero, call.percent)
        /\ RatLE(call.percent, Hundred)

\* a 24-cell pack, a voltage inside the curve, a percentage that is no integer
C1_Witness ==
    /\ PercentOfBuiltIn
    /\ call.cells = MaxCellCount
    /\ ~call.err
    /\ call.percent.den > 1
    /\ RatLT(Zero, call.percent)
    /\ RatLT(call.percent, Hundred)

\* C2: for every built-in chemistry and every cell count n in 1..24,
\* VoltageToPercent returns exactly 0 for every pack voltage
\* <= GetScaledMinVoltage() and exactly 100 for every pack voltage
\* >= GetScaledMaxVoltage().
C2_ClampAtScaledBounds ==
    PercentOfBuiltIn =>
        /\ call.voltage <= GetScaledMinVoltage(pack) => call.percent = Zero
        /\ call.voltage >= GetScaledMaxVoltage(pack) => call.percent = Hundred

\* a 24-cell pack read at exactly its scaled maximum
C2_Witness ==
    /\ PercentOfBuiltIn
    /\ call.cells = MaxCellCount
    /\ call.voltage = GetScaledMaxVoltage(pack)
    /\ call.voltage = MaxCellCount * pack.Type.MaxVoltage
    /\ call.percent = Hundred

\* C3: for one built-in chemistry and a fixed cell count, VoltageToPercent is
\* monotonically non-decreasing in the voltage: every lower voltage yields a
\* percentage that is not greater, every higher voltage one that is not less.
C3_Monotonic ==
    PercentOfBuiltIn =>
        \A v \in PercentVoltages(pack) :
            LET other == VoltageToPercent(pack, v).percent
            IN  /\ v <= call.voltage => RatLE(other, call.percent)
                /\ call.voltage <= v => RatLE(call.percent, other)

\* a 4-cell LiFePO4 pack at 13.0 V: 3.25 V per cell, the repeated curve point
C3_Witness ==
    /\ PercentOfBuiltIn
    /\ call.chemistry = ChemistryLiFePO4
    /\ call.cells = 4
    /\ call.voltage = CentiVolt(1300)
    /\ call.percent = Rat(50, 1)

\* the last call was DetectCellCount on a registered chemistry
DetectOfRegistered ==
    /\ call.op = "DetectCellCount"
    /\ call.chemistry \in Registered

\* MinVoltage + MaxVoltage, twice the nominal voltage
TwiceNominal(chemistry) ==
    ChemistryProfiles[chemistry].MinVoltage + ChemistryProfiles[chemistry].MaxVoltage

\* C4: for every registered chemistry c and every cell count n in 1..24,
\* DetectCellCount(c, n * nominal(c)) = n, with nominal = (Min + Max) / 2.
C4_RoundTrip ==
    (DetectOfRegistered /\ ~IsHuge(call.voltage)) =>
        \A n \in MinCellCount..MaxCellCount :
            2 * call.voltage = n * TwiceNominal(call.chemistry) => call.cells = n

\* 24 cells of LiFePO4 at 24 * 3.075 V
C4_Witness ==
    /\ DetectOfRegistered
    /\ call.chemistry = ChemistryLiFePO4
    /\ ~IsHuge(call.voltage)
    /\ 2 * call.voltage = MaxCellCount * TwiceNominal(ChemistryLiFePO4)
    /\ call.cells = MaxCellCount

\* floor(voltage / nominal + 1/2) clamped into 1..24; a voltage beyond every
\* bound counts as very high (or very low)
ClampedHalfUp(chemistry, voltage) ==
    IF voltage >= HugeVoltage THEN MaxCellCount
    ELSE IF voltage <= -HugeVoltage THEN MinCellCount
    ELSE LET f == (4 * voltage + TwiceNominal(chemistry))
                     \div (2 * TwiceNominal(chemistry))
         IN  IF f < MinCellCount THEN MinCellCount
             ELSE IF f > MaxCellCount THEN MaxCellCount
             ELSE f

\* C5: for a registered chemistry and any voltage (voltages <= 0 and
\* arbitrarily large ones included), DetectCellCount returns
\* floor(voltage / nominal + 0.5) clamped into [1, 24]; a very high voltage
\* yields 24.
C5_ClampedHalfUp ==
    DetectOfRegistered => call.cells = ClampedHalfUp(call.chemistry, call.voltage)

\* C5, for the voltages whose quotient the int type can represent
C5_ClampedHalfUpInRange ==
    (DetectOfRegistered /\ ~IsHuge(call.voltage)) =>
        call.cells = ClampedHalfUp(call.chemistry, call.voltage)

\* the scaled range of a pack of n cells of chemistry c contains voltage
InScaledRange(c, n, voltage) ==
    /\ GetScaledMinVoltage(BatteryPack(ChemistryProfiles[c], n)) <= voltage
    /\ voltage <= GetScaledMaxVoltage(BatteryPack(ChemistryProfiles[c], n))

EntryInRange(i, voltage) ==
    InScaledRange(voltageTable[i].chemistry, voltageTable[i].cellCount, voltage)

SomeTableEntryInRange(voltage) ==
    \E i \in 1..Len(voltageTable) : EntryInRange(i, voltage)

SomeFallbackInRange(voltage) ==
    \E c \in Registered, n \in 1..MaxFallbackCells : InScaledRange(c, n, voltage)

AutoDetectCalled == call.op = "AutoDetectBatteryPack"

\* C6: for a positive voltage that some table entry's window contains, the
\* result is the first such entry in table order, never a later entry or a
\* fallback combination; 3.86 V resolves to 1-cell Li-Ion.
C6_FirstTableEntry ==
    (AutoDetectCalled /\ call.voltage > 0 /\ SomeTableEntryInRange(call.voltage)) =>
        /\ ~call.err
        /\ call.phase = "table"
        /\ \E i \in 1..Len(voltageTable) :
              /\ EntryInRange(i, call.voltage)
              /\ \A j \in 1..(i - 1) : ~EntryInRange(j, call.voltage)
              /\ call.chemistry = voltageTable[i].chemistry
              /\ call.cells = voltageTable[i].cellCount
        /\ call.voltage = CentiVolt(386) =>
              (call.chemistry = ChemistryLiIon /\ call.cells = 1)

\* 10.5 V lies in the windows of two table entries (3-cell Li-Ion and 3-cell
\* LiFePO4) and resolves to the earlier one
C6_Witness ==
    /\ AutoDetectCalled
    /\ call.voltage = CentiVolt(1050)
    /\ Cardinality({i \in 1..Len(voltageTable) : EntryInRange(i, call.voltage)}) = 2
    /\ call.chemistry = ChemistryLiIon
    /\ call.cells = 3

\* C7: the fallback is used only when no table entry's window contains the
\* voltage; it then returns a (registered chemistry, cell count in 1..10)
\* combination whose window contains the voltage and whose cell count is the
\* lowest among all such combinations.
C7_FallbackLowestCellCount ==
    AutoDetectCalled =>
        /\ call.phase = "fallback" =>
              /\ ~SomeTableEntryInRange(call.voltage)
              /\ ~call.err
              /\ call.chemistry \in Registered
              /\ call.cells \in 1..MaxFallbackCells
              /\ InScaledRange(call.chemistry, call.cells, call.voltage)
              /\ \A c \in Registered, n \in 1..MaxFallbackCells :
                    InScaledRange(c, n, call.voltage) => call.cells <= n
        /\ (/\ call.voltage > 0
            /\ ~SomeTableEntryInRange(call.voltage)
            /\ SomeFallbackInRange(call.voltage)) => call.phase = "fallback"

\* 22.0 V lies in no table window; 6, 7 and 10 cells match, 6 are returned
C7_Witness ==
    /\ AutoDetectCalled
    /\ call.phase = "fallback"
    /\ call.voltage = CentiVolt(2200)
    /\ call.cells = 6
    /\ \E c \in Registered, n \in 7..MaxFallbackCells :
          InScaledRange(c, n, call.voltage)

\* C8: AutoDetectBatteryPack returns an error and no pack whenever the
\* voltage is <= 0 or lies in no table window and no fallback window; it
\* never returns a default chemistry then.
C8_UndetectableIsError ==
    (/\ AutoDetectCalled
     /\ \/ call.voltage <= 0
        \/ (~SomeTableEntryInRange(call.voltage) /\ ~SomeFallbackInRange(call.voltage)))
    => (call.err /\ pack = NilPack)

\* 1.5 V, below every chemistry's single-cell minimum
C8_Witness ==
    /\ AutoDetectCalled
    /\ call.voltage = CentiVolt(150)
    /\ call.err
    /\ pack = NilPack

\* C9: whenever AutoDetectBatteryPack(v) succeeds, the pack is non-nil, has
\* a registered chemistry and a cell count >= 1, and
\* GetScaledMinVoltage() <= v <= GetScaledMaxVoltage().
C9_DetectedPackContainsVoltage ==
    (AutoDetectCalled /\ ~call.err) =>
        /\ pack # NilPack
        /\ pack.Type.Chemistry \in Registered
        /\ pack.Type = ChemistryProfiles[pack.Type.Chemistry]
        /\ pack.CellCount >= 1
        /\ GetScaledMinVoltage(pack) <= call.voltage
        /\ call.voltage <= GetScaledMaxVoltage(pack)

\* 21.0 V, exactly the scaled maximum of the 5-cell Li-Ion pack it resolves to
C9_Witness ==
    /\ AutoDetectCalled
    /\ ~call.err
    /\ call.voltage = CentiVolt(2100)
    /\ pack = BatteryPack(LiIonChemistry, 5)
    /\ call.voltage = GetScaledMaxVoltage(pack)

C10_CellCountDeterministic ==
    (AutoDetectCalled /\ last.op = "AutoDetectBatteryPack") =>
        /\ last.voltage = call.voltage
        /\ last.err = call.err
        /\ last.cells = call.cells

\* some (registered chemistry, cell count below n) has a window containing voltage
LowerCellCountMatches(n, voltage) ==
    \E c \in Registered, m \in 1..(n - 1) : InScaledRange(c, m, voltage)

GetBatteryPackCalled == call.op = "GetBatteryPack"

\* AutoDetectBatteryPack(voltage) can resolve the voltage
AutoDetectable(voltage) == \E r \in AutoDetectBatteryPack(voltage) : ~r.err

\* C12: GetBatteryPack resolves the configured chemistry and cell count when
\* they are configured, and otherwise auto-detects: with an empty configured
\* chemistry and a positive voltage that AutoDetectBatteryPack can resolve, it
\* returns without error a (chemistry, cellCount) that auto-detection yields.
C12_AutoDetectsWhenUnconfigured ==
    GetBatteryPackCalled =>
        /\ (battery.Chemistry \in Registered /\ battery.ManualCellCount > 0) =>
              /\ ~call.err
              /\ pack = BatteryPack(ChemistryProfiles[battery.Chemistry],
                                    battery.ManualCellCount)
        /\ (/\ battery.Chemistry = ""
            /\ call.voltage > 0
            /\ AutoDetectable(call.voltage)) =>
              /\ ~call.err
              /\ \E r \in AutoDetectBatteryPack(call.voltage) : ~r.err /\ pack = r.pack

\* C13: for every configuration that batteryValidateFunc accepts and whose
\* chemistry is registered, and for every voltage, the pack GetBatteryPack
\* returns without error has 1 <= CellCount <= 24: ManualCellCount when that
\* is > 0, the clamped DetectCellCount of the voltage otherwise.
C13_CellCountInRange ==
    (/\ GetBatteryPackCalled
     /\ ~batteryValidateFunc(battery)
     /\ battery.Chemistry \in Registered
     /\ ~call.err) =>
        /\ pack.CellCount \in MinCellCount..MaxCellCount
        /\ battery.ManualCellCount > 0 => pack.CellCount = battery.ManualCellCount
        /\ battery.ManualCellCount <= 0 =>
              pack.CellCount \in DetectCellCount(battery.Chemistry, call.voltage)

\* C13, for the positive voltages
C13_CellCountInRangePositive ==
    (/\ GetBatteryPackCalled
     /\ ~batteryValidateFunc(battery)
     /\ battery.Chemistry \in Registered
     /\ ~call.err
     /\ call.voltage > 0) =>
        /\ pack.CellCount \in MinCellCount..MaxCellCount
        /\ battery.ManualCellCount > 0 => pack.CellCount = battery.ManualCellCount
        /\ battery.ManualCellCount <= 0 =>
              pack.CellCount \in DetectCellCount(battery.Chemistry, call.voltage)

\* a non-empty name that is no key of ChemistryProfiles
IsUnknown(chemistry) == chemistry # "" /\ chemistry \notin Registered

\* C14: an unknown chemistry is always an error: GetBatteryPack,
\* GetChemistryProfile, NewBatteryPack, SetManualChemistry and
\* SetManualConfiguration, given a non-empty chemistry name that is no key of
\* ChemistryProfiles, return an error and no pack or profile, and leave the
\* configuration as it was; no other chemistry is substituted.
C14_UnknownChemistryIsError ==
    [][ /\ (call'.op = "GetBatteryPack" /\ IsUnknown(battery.Chemistry)) =>
              (call'.err /\ pack' = NilPack /\ battery' = battery)
        /\ (call'.op = "GetChemistryProfile" /\ IsUnknown(battery.Chemistry)) =>
              (call'.err /\ call'.chemistry = NilType.Chemistry /\ battery' = battery)
        /\ (call'.op = "NewBatteryPack" /\ IsUnknown(call'.chemistry)) =>
              (call'.err /\ pack' = NilPack /\ battery' = battery)
        /\ (/\ call'.op \in {"SetManualChemistry", "SetManualConfiguration"}
            /\ IsUnknown(call'.chemistry)) =>
              (call'.err /\ battery' = battery)
      ]_vars

\* GetChemistryProfile on a configuration of chemistry "custom", which the
\* registry does not hold: an error and a nil profile
C14_Witness ==
    /\ call.op = "GetChemistryProfile"
    /\ battery.Chemistry = ChemistryCustom
    /\ IsUnknown(battery.Chemistry)
    /\ call.err
    /\ call.chemistry = NilType.Chemistry

\* C20: a configured cell count outside [1,24] is rejected at configuration
\* time: batteryValidateFunc returns an error for every configuration whose
\* ManualCellCount is non-zero and outside 1..24, and SetManualConfiguration
\* returns an error, and does not record the count, for every cellCount
\* argument outside 1..24 other than 0, negative ones included.
C20_CellCountRejected ==
    [][ /\ (/\ call'.op = "batteryValidateFunc"
            /\ battery.ManualCellCount # 0
            /\ battery.ManualCellCount \notin MinCellCount..MaxCellCount) => call'.err
        /\ (/\ call'.op = "SetManualConfiguration"
            /\ call'.cells # 0
            /\ call'.cells \notin MinCellCount..MaxCellCount) =>
              (call'.err /\ battery'.ManualCellCount = battery.ManualCellCount)
      ]_vars

\* C20, without the negative arguments of SetManualConfiguration
C20_CellCountRejectedAbove ==
    [][ /\ (/\ call'.op = "batteryValidateFunc"
            /\ battery.ManualCellCount # 0
            /\ battery.ManualCellCount \notin MinCellCount..MaxCellCount) => call'.err
        /\ (call'.op = "SetManualConfiguration" /\ call'.cells > MaxCellCount) =>
              (call'.err /\ battery'.ManualCellCount = battery.ManualCellCount)
        /\ (call'.op = "SetManualConfiguration" /\ call'.cells < 0) =>
              battery'.ManualCellCount = battery.ManualCellCount
      ]_vars

(***************************************************************************)
(* Properties of the sentinel of DetectCellCount and of the registry       *)
(* (Spec).                                                                 *)
(***************************************************************************)
\* C15: Battery.DetectCellCount(chemistry, voltage) returns the sentinel 0
\* for every chemistry name that is not in the registry, whatever the
\* voltage, and never returns 0 for a registered chemistry, which always
\* yields a value >= 1.
C15_ZeroCellsIffUnknown ==
    call.op = "DetectCellCount" =>
        /\ call.chemistry \notin Registered => call.cells = 0
        /\ call.chemistry \in Registered => call.cells >= 1

\* 12.0 V of "invalid-chemistry": 0 cells
C15_Witness ==
    /\ call.op = "DetectCellCount"
    /\ call.chemistry = UnknownChemistry
    /\ call.voltage = CentiVolt(1200)
    /\ call.cells = 0

\* s[1] < s[2] < ... (strictly ascending)
StrictlyAscending(s) == \A i \in 1..(Len(s) - 1) : s[i] < s[i + 1]

\* s[1] <= s[2] <= ... (ascending)
Ascending(s) == \A i \in 1..(Len(s) - 1) : s[i] <= s[i + 1]

\* Voltages and Percent non-empty and of the same length, and the curve
\* within the per-cell minimum and maximum
CurveWellFormed(type) ==
    /\ Len(type.Voltages) > 0
    /\ Len(type.Voltages) = Len(type.Percent)
    /\ type.MinVoltage <= type.Voltages[1]
    /\ type.Voltages[Len(type.Voltages)] <= type.MaxVoltage

BuiltIn == {ChemistryLeadAcid, ChemistryLiFePO4, ChemistryLiIon, ChemistryLiPo}

\* C19: the registry contains the four built-in profiles lead-acid, lifepo4,
\* li-ion and lipo, and every registered profile satisfies the curve
\* invariant: Voltages and Percent are non-empty, of the same length and each
\* strictly ascending, and MinVoltage <= Voltages[first] and
\* Voltages[last] <= MaxVoltage.  Stated of the registry a successful
\* NewBatteryPack has looked its profile up in.
C19_RegistryCurveInvariant ==
    (call.op = "NewBatteryPack" /\ ~call.err) =>
        /\ BuiltIn \subseteq Registered
        /\ pack.Type = ChemistryProfiles[call.chemistry]
        /\ \A c \in Registered :
              /\ CurveWellFormed(ChemistryProfiles[c])
              /\ StrictlyAscending(ChemistryProfiles[c].Voltages)
              /\ StrictlyAscending(ChemistryProfiles[c].Percent)

\* C19, with voltages that ascend but may repeat
C19_RegistryCurveAscending ==
    (call.op = "NewBatteryPack" /\ ~call.err) =>
        /\ BuiltIn \subseteq Registered
        /\ pack.Type = ChemistryProfiles[call.chemistry]
        /\ \A c \in Registered :
              /\ CurveWellFormed(ChemistryProfiles[c])
              /\ Ascending(ChemistryProfiles[c].Voltages)
              /\ StrictlyAscending(ChemistryProfiles[c].Percent)

(***************************************************************************)
(* Properties of VoltageToPercent on packs of any profile (CurveSpec).     *)
(***************************************************************************)
VoltageToPercentCalled == call.op = "VoltageToPercent"

\* the arrays of the profile are non-empty and of the same length
CurvesMatch(type) ==
    Len(type.Voltages) > 0 /\ Len(type.Voltages) = Len(type.Percent)

\* C16: VoltageToPercent returns an error, with the percentage -1, exactly
\* when the pack has no battery type, or CellCount <= 0, or the Voltages and
\* Percent arrays of the profile are empty or of different lengths; whether
\* it does is independent of the voltage.
C16_ErrorIffInvalidPack ==
    VoltageToPercentCalled =>
        /\ call.err <=> \/ pack.Type = NilType
                        \/ pack.CellCount <= 0
                        \/ ~CurvesMatch(pack.Type)
        /\ call.err => call.percent = Rat(-1, 1)
        /\ ~call.err => call.percent # Rat(-1, 1)
        /\ \A v \in PercentVoltages(pack) : VoltageToPercent(pack, v).err = call.err

\* a 2-cell pack of a custom profile with two voltages and one percentage
C16_Witness ==
    /\ VoltageToPercentCalled
    /\ pack.Type.Chemistry = ChemistryCustom
    /\ pack.CellCount = 2
    /\ Len(pack.Type.Voltages) = 2
    /\ Len(pack.Type.Percent) = 1
    /\ call.err
    /\ call.percent = Rat(-1, 1)

\* the last call was VoltageToPercent on a pack of at least one cell whose
\* arrays are non-empty and of the same length
PercentOfMatchingCurves ==
    /\ VoltageToPercentCalled
    /\ pack.Type # NilType
    /\ pack.CellCount >= 1
    /\ CurvesMatch(pack.Type)

\* C17: the final clamp protects against malformed custom curves: for a pack
\* with CellCount >= 1 whose Voltages and Percent are non-empty and of equal
\* length but otherwise arbitrary, every result returned without error lies
\* in [0, 100], for every voltage.
C17_ResultInRange ==
    (PercentOfMatchingCurves /\ ~call.err) =>
        (RatLE(Zero, call.percent) /\ RatLE(call.percent, Hundred))

\* the per-cell voltage lies strictly between the first and the last
\* voltage of the curve
Interior(bp, voltage) ==
    /\ bp.Type.Voltages[1] * bp.CellCount < voltage
    /\ voltage < bp.Type.Voltages[Len(bp.Type.Voltages)] * bp.CellCount

\* C17, for the voltages strictly inside the curve
C17_InteriorResultInRange ==
    (PercentOfMatchingCurves /\ ~call.err /\ Interior(pack, call.voltage)) =>
        (RatLE(Zero, call.percent) /\ RatLE(call.percent, Hundred))

\* curve points i and i+1 bracket the per-cell voltage: v1 <= cv < v2
Bracket(bp, voltage, i) ==
    /\ bp.Type.Voltages[i] * bp.CellCount <= voltage
    /\ voltage < bp.Type.Voltages[i + 1] * bp.CellCount

\* p1 + (p2 - p1) * (cv - v1) / (v2 - v1) for the curve points i and i+1 and
\* cv = voltage / CellCount, in lowest terms
LinearValue(bp, voltage, i) ==
    LET v1 == bp.Type.Voltages[i]
        v2 == bp.Type.Voltages[i + 1]
        p1 == bp.Type.Percent[i]
        p2 == bp.Type.Percent[i + 1]
        n  == bp.CellCount
    IN  Normalize(p1 * n * (v2 - v1) + (p2 - p1) * (voltage - n * v1), n * (v2 - v1))

IntoPercentRange(r) ==
    IF r.num < 0 THEN Zero ELSE IF r.num > 100 * r.den THEN Hundred ELSE r

\* the custom profile voltages = [3.4, 4.17], percents = [0, 100], one cell,
\* read at 3.785 V
IsExample ==
    /\ pack.Type.Voltages = CentiVolts(<<340, 417>>)
    /\ pack.Type.Percent = <<0, 100>>
    /\ pack.CellCount = 1
    /\ call.voltage = 7570

\* C18: for a pack with an ascending curve and a per-cell voltage cv strictly
\* between the first and the last curve voltage, VoltageToPercent returns
\* p1 + (p2 - p1) * (cv - v1) / (v2 - v1) for the adjacent curve points with
\* v1 <= cv < v2; the custom profile [3.4, 4.17] / [0, 100] with one cell gives
\* 50 at 3.785 V.
C18_Interpolates ==
    (/\ PercentOfMatchingCurves
     /\ Ascending(pack.Type.Voltages)
     /\ Ascending(pack.Type.Percent)
     /\ Interior(pack, call.voltage)) =>
        /\ ~call.err
        /\ \E i \in 1..(Len(pack.Type.Voltages) - 1) :
              /\ Bracket(pack, call.voltage, i)
              /\ call.percent = LinearValue(pack, call.voltage, i)
        /\ IsExample => call.percent = Rat(50, 1)

\* C18, with the clamp: the value returned is the interpolated one brought
\* into [0, 100], and the interpolated one itself whenever the percentages
\* of the curve lie in [0, 100]; the voltages ascend, the percentages are
\* arbitrary.
C18_InterpolatesClamped ==
    (/\ PercentOfMatchingCurves
     /\ Ascending(pack.Type.Voltages)
     /\ Interior(pack, call.voltage)) =>
        /\ ~call.err
        /\ \E i \in 1..(Len(pack.Type.Voltages) - 1) :
              /\ Bracket(pack, call.voltage, i)
              /\ call.percent = IntoPercentRange(LinearValue(pack, call.voltage, i))
              /\ (\A p \in Range(pack.Type.Percent) : 0 <= p /\ p <= 100) =>
                    call.percent = LinearValue(pack, call.voltage, i)
        /\ IsExample => call.percent = Rat(50, 1)

\* the example of the specification: 50 at 3.785 V
C18_Witness ==
    /\ PercentOfMatchingCurves
    /\ IsExample
    /\ Interior(pack, call.voltage)
    /\ ~call.err
    /\ call.percent = Rat(50, 1)

(***************************************************************************)
(* The binary search of VoltageToPercent.                                  *)
(***************************************************************************)
\* VoltageToPercent was called on a pack whose curve has at least two
\* points and ascending voltages, with a per-cell voltage strictly between
\* the first and the last of them
SearchReached ==
    /\ PercentOfMatchingCurves
    /\ pack.CellCount >= 1
    /\ Len(pack.Type.Voltages) >= 2
    /\ Ascending(pack.Type.Voltages)
    /\ Interior(pack, call.voltage)

\* C25: for a curve of at least two points with ascending voltages and a
\* per-cell voltage strictly between the first and the last, the binary
\* search of VoltageToPercent ends, after fewer iterations than the curve has
\* points, with right = left + 1 and voltages[left] <= cellVoltage <
\* voltages[right]; so v2 - v1 > 0 and the interpolation divides by no zero.
C25_SearchEndsOnBracket ==
    SearchReached =>
        LET voltages == pack.Type.Voltages
            cv       == CellVoltage(pack, call.voltage)
            iv       == SearchInterval(voltages, cv, 0, Len(voltages) - 1)
            left     == iv[1]
            right    == iv[2]
        IN  /\ right = left + 1
            /\ 0 <= left /\ right <= Len(voltages) - 1
            /\ RatLE(Rat(voltages[left + 1], 1), cv)
            /\ RatLT(cv, Rat(voltages[right + 1], 1))
            /\ voltages[right + 1] - voltages[left + 1] > 0
            /\ SearchSteps(voltages, cv, 0, Len(voltages) - 1) < Len(voltages)
            /\ ~call.err

\* a LiFePO4 pack read at the per-cell voltage 3.25 V, which its curve holds
\* twice
C25_Witness ==
    /\ SearchReached
    /\ pack.Type = LiFePO4Chemistry
    /\ pack.CellCount > 1
    /\ call.voltage = CentiVolt(325) * pack.CellCount
    /\ SearchSteps(pack.Type.Voltages, CellVoltage(pack, call.voltage), 0,
                   Len(pack.Type.Voltages) - 1) > 1

(***************************************************************************)
(* The manual override: SetManualChemistry, SetManualConfiguration and     *)
(* ClearManualConfiguration on the configuration DefaultBattery() returns. *)
(***************************************************************************)
SetCalls == {"SetManualChemistry", "SetManualConfiguration"}

\* C21: IsManuallyConfigured() is true exactly when the most recent of the
\* three calls that returned no error was SetManualChemistry or
\* SetManualConfiguration; right after ClearManualConfiguration the flag is
\* false, the chemistry empty and the manual cell count 0; right after a
\* SetManualChemistry(c) that returned no error the chemistry is c.
C21_ManualFlagFollowsLastCall ==
    /\ IsManuallyConfigured(battery) <=> lastOk \in SetCalls
    /\ call.op = "ClearManualConfiguration" =>
          /\ ~battery.ManuallyConfigured
          /\ battery.Chemistry = ""
          /\ battery.ManualCellCount = 0
    /\ (call.op = "SetManualChemistry" /\ ~call.err) =>
          battery.Chemistry = call.chemistry

\* a call failed after a ClearManualConfiguration that followed a successful
\* SetManualConfiguration: the last call without error is the clear
C21_Witness ==
    /\ lastOk = "ClearManualConfiguration"
    /\ call.op \in SetCalls
    /\ call.err
    /\ ~IsManuallyConfigured(battery)

\* C26: a SetManualChemistry or SetManualConfiguration call that returns an
\* error leaves every field of the Battery as it was before the call.
C26_FailedSetterChangesNothing ==
    [][(call'.op \in SetCalls /\ call'.err) => battery' = battery]_vars

\* the part of C26 the code keeps: a call that fails on its chemistry
\* argument changes no field, and no failed call changes the override flag
\* or the manual cell count
C26_FailedSetterKeepsFlagAndCount ==
    [][(call'.op \in SetCalls /\ call'.err) =>
          /\ battery'.ManuallyConfigured = battery.ManuallyConfigured
          /\ battery'.ManualCellCount = battery.ManualCellCount
          /\ (call'.chemistry # "" /\ call'.chemistry \notin Registered) =>
                battery' = battery]_vars

\* C27: every Battery reached from DefaultBattery() by the three calls is
\* accepted by batteryValidateFunc: its chemistry is empty or registered and
\* its manual cell count is 0 or in 1..24.
C27_SettersKeepValid ==
    /\ ~batteryValidateFunc(battery)
    /\ battery.Chemistry = "" \/ battery.Chemistry \in Registered
    /\ battery.ManualCellCount = 0
          \/ battery.ManualCellCount \in MinCellCount..MaxCellCount

\* a call with a cell count above 24 was refused on a configuration that
\* holds the largest count
C27_Witness ==
    /\ call.op = "SetManualConfiguration"
    /\ call.cells > MaxCellCount
    /\ call.err
    /\ battery.ManualCellCount = MaxCellCount
    /\ battery.Chemistry \in Registered

(***************************************************************************)
(* Migration of the legacy format.                                         *)
(***************************************************************************)
HasLegacyField(b) == b.PresetBatteryType # "" \/ b.CustomBatteryType # NilLegacyType

MigrationRan == call.op \in {"migrateBatteryConfig", "batteryMapToStruct"} /\ call.phase = "migrated"

\* C22: batteryMapToStruct migrates only a configuration that holds a legacy
\* field (a non-empty preset-battery-type or a custom-battery-type) and
\* neither new-format field (no chemistry and no manual cell count); a
\* configuration that holds a new-format value is returned unmodified.
C22_MigrationOnlyWithoutNewFields ==
    call.op = "batteryMapToStruct" =>
        /\ call.phase = "migrated" =>
              /\ HasLegacyField(battery)
              /\ battery.Chemistry = ""
              /\ battery.ManualCellCount = 0
        /\ (battery.Chemistry # "" \/ battery.ManualCellCount # 0) =>
              /\ ~migrated.err
              /\ migrated.battery = battery

\* the part of C22 the code keeps: migration runs exactly for a legacy
\* field without a chemistry, and a configuration that names a chemistry is
\* returned unmodified
C22_MigrationOnlyWithoutChemistry ==
    call.op = "batteryMapToStruct" =>
        /\ call.phase = "migrated" <=> (HasLegacyField(battery) /\ battery.Chemistry = "")
        /\ battery.Chemistry # "" => (~migrated.err /\ migrated.battery = battery)

\* the preset mapping as the claim states it
PresetMapping ==
    { <<"lime", "li-ion", 10>>, <<"li-ion", "li-ion", 1>>,
      <<"lifepo4-6v", "lifepo4", 2>>, <<"lifepo4-12v", "lifepo4", 4>>,
      <<"lifepo4-24v", "lifepo4", 8>>, <<"lead-acid-12v", "lead-acid", 6>>,
      <<"lead-acid-24v", "lead-acid", 12>> }

\* C23: migrateBatteryConfig maps the presets lime, li-ion, lifepo4-6v,
\* lifepo4-12v, lifepo4-24v, lead-acid-12v, lead-acid-24v to (li-ion, 10),
\* (li-ion, 1), (lifepo4, 2), (lifepo4, 4), (lifepo4, 8), (lead-acid, 6),
\* (lead-acid, 12), sets ManuallyConfigured and clears PresetBatteryType and
\* CustomBatteryType; for any other non-empty preset it returns an error.
C23_PresetMapping ==
    (call.op = "migrateBatteryConfig" /\ battery.PresetBatteryType # "") =>
        IF \E e \in PresetMapping : e[1] = battery.PresetBatteryType
        THEN /\ ~migrated.err
             /\ <<battery.PresetBatteryType, migrated.battery.Chemistry,
                   migrated.battery.ManualCellCount>> \in PresetMapping
             /\ migrated.battery.ManuallyConfigured
             /\ migrated.battery.PresetBatteryType = ""
             /\ migrated.battery.CustomBatteryType = NilLegacyType
        ELSE migrated.err

\* a 24 V lead-acid preset, on a configuration that also holds a custom type
\* and another cell count, migrated to 12 cells
C23_Witness ==
    /\ call.op = "migrateBatteryConfig"
    /\ battery.PresetBatteryType = "lead-acid-24v"
    /\ battery.CustomBatteryType # NilLegacyType
    /\ battery.ManualCellCount = 4
    /\ ~battery.ManuallyConfigured
    /\ migrated.battery.ManualCellCount = 12

\* the chemistry and cell-count checks of batteryValidateFunc and the lookups
\* of GetChemistryProfile and GetBatteryPack accept b
UsableConfig(b) ==
    /\ b.Chemistry \in Registered
    /\ b.ManualCellCount \in 0..MaxCellCount
    /\ ~batteryValidateFunc(b)
    /\ ~GetChemistryProfile(b).err
    /\ \A v \in ConfigVoltages : \A r \in GetBatteryPack(b, v) : ~r.err

\* C28: every Battery that migrateBatteryConfig returns without error, from
\* a preset or from a custom type with any voltage range, names a chemistry
\* of ChemistryProfiles and a manual cell count in 0..24: batteryValidateFunc
\* accepts it and GetBatteryPack finds its chemistry.
C28_MigratedChemistryRegistered ==
    (call.op = "migrateBatteryConfig" /\ ~migrated.err) => UsableConfig(migrated.battery)

\* the part of C28 the code keeps: the cell count is always in 0..24, and the
\* chemistry is registered when it comes from a preset or from a custom type
\* that names a registered chemistry or none with a range the heuristics match
C28_MigratedCellCountInRange ==
    (call.op = "migrateBatteryConfig" /\ ~migrated.err) =>
        /\ migrated.battery.ManualCellCount \in 0..MaxCellCount
        /\ migrated.battery.Chemistry \in Registered \cup {ChemistryCustom, "nimh"}
        /\ battery.PresetBatteryType # "" => UsableConfig(migrated.battery)
        /\ migrated.battery.Chemistry \in Registered => UsableConfig(migrated.battery)

\* C29: a Battery that migrateBatteryConfig returns without error has a
\* non-empty chemistry and no legacy field, so needsMigration is false of it:
\* decoded again it is returned as it is.
C29_MigratedNeedsNoMigration ==
    /\ (MigrationRan /\ ~migrated.err) =>
          /\ migrated.battery.Chemistry # ""
          /\ migrated.battery.PresetBatteryType = ""
          /\ migrated.battery.CustomBatteryType = NilLegacyType
          /\ ~needsMigration(migrated.battery)
    /\ (call.op = "batteryMapToStruct" /\ last.phase = "migrated") =>
          /\ call.phase = "kept"
          /\ ~migrated.err
          /\ migrated.battery = battery

\* the result of migrating a custom type that no chemistry matches was
\* decoded again and kept
C29_Witness ==
    /\ call.op = "batteryMapToStruct"
    /\ last.op = "batteryMapToStruct"
    /\ last.phase = "migrated"
    /\ call.phase = "kept"
    /\ battery.Chemistry = ChemistryCustom
    /\ migrated.battery = battery

(***************************************************************************)
(* The settings sync.                                                      *)
(***************************************************************************)
KnownKeys == {ConfigSections[i].Key : i \in 1..Len(ConfigSections)}

\* the device holds a settings map for the section
DeviceHasMap(section) ==
    /\ section.Name \in DOMAIN sync.device
    /\ sync.device[section.Name].isMap

\* the section has an "updated" mapping and both sides hold a time under it
Comparable(section) ==
    /\ \E i \in 1..Len(section.Mappings) : section.Mappings[i].APIKey = "updated"
    /\ "updated" \in DOMAIN sync.mapped[section.Key]
    /\ sync.mapped[section.Key]["updated"].isTime
    /\ "updated" \in DOMAIN sync.device[section.Name].map
    /\ sync.device[section.Name].map["updated"].isTime

ServerIsNewer(section) ==
    sync.mapped[section.Key]["updated"].v > sync.device[section.Name].map["updated"].v

\* C24: filterUnchangedSettings keeps a section of ConfigSections that the
\* mapped settings hold if and only if the device has no settings map for
\* it, or there are no comparable 'updated' times, or the server's time is
\* strictly after the device's; a section with an equal or older time is
\* dropped, a kept section is passed on as it is, and a key that is no
\* section of ConfigSections never appears in the result.
C24_KeepsNewerSections ==
    sync.called =>
        /\ DOMAIN sync.filtered \subseteq KnownKeys \cap DOMAIN sync.mapped
        /\ \A k \in DOMAIN sync.filtered : sync.filtered[k] = sync.mapped[k]
        /\ \A i \in 1..Len(ConfigSections) :
              LET section == ConfigSections[i]
              IN  section.Key \in DOMAIN sync.mapped =>
                    (section.Key \in DOMAIN sync.filtered <=>
                        \/ ~DeviceHasMap(section)
                        \/ ~Comparable(section)
                        \/ ServerIsNewer(section))

\* windows with equal times was dropped, audioRecording with a newer time
\* and location, which has no 'updated' mapping, were kept, and the section
\* "unknown" was sent
C24_Witness ==
    /\ sync.called
    /\ "unknown" \in DOMAIN sync.mapped
    /\ "windows" \in DOMAIN sync.mapped
    /\ {"windows", "location"} \subseteq DOMAIN sync.device
    /\ sync.mapped["windows"] = SectionMap("start-recording", TimeValue(2))
    /\ sync.device["windows"] = DeviceSection(TRUE, SectionMap("startRecording", TimeValue(2)))
    /\ sync.device["location"].isMap
    /\ DOMAIN sync.filtered = {"audio-recording", "location"}

(***************************************************************************)
(* The config file lock.                                                   *)
(***************************************************************************)
\* instance i is in Set, between acquiring the lock and returning
InSet(i) == conf[i].op = "Set"

\* C30: Set holds the config file lock for its whole read-modify-write: from
\* the moment Set has acquired the lock until it returns the lock is never
\* released, so the Update, set and Write of a Set do not interleave with a
\* Set or an Update through another Config instance on the same file.
C30_SetHoldsLock ==
    \A i \in Instances :
        InSet(i) =>
            /\ file.lock = i
            /\ \A j \in Instances \ {i} : conf[j].op = "none"

\* the part of C30 the code keeps: the lock has one owner at a time, and an
\* instance holds it from getFileLock to the end of its ReadInConfig
C30_LockHeldWhileReading ==
    \A i \in Instances :
        /\ conf[i].locked <=> file.lock = i
        /\ conf[i].at \in {"Update", "ReadInConfig", "UpdateUnlock"} => file.lock = i

\* a Set wrote the file without the lock, over a value that another
\* instance had set since the Set read the file
C30_Witness ==
    \E i \in Instances, j \in Instances :
        /\ i # j
        /\ conf[i].at = "Unlock"
        /\ ~conf[i].locked
        /\ conf[j].override # Unset
        /\ conf[j].op = "none"
        /\ file.content[SectionOf(j)] = Unset

====
